---------------------------- MODULE Spec2Model ----------------------------
(***************************************************************************)
(* Model of optimizely-cms-typegen: the parser (src/src/parser.ts), the    *)
(* generator (src/unnamed/part_000, generator.ts) and the command-line     *)
(* action (src/src/cli.ts).                                                *)
(*                                                                         *)
(* Text is modelled by strings (Len, \o, SubSeq act on them character by   *)
(* character).  JavaScript values are tagged records: t is the tag, v the  *)
(* payload; an object is the sequence of its entries <<key, value>> in     *)
(* Object.entries order.                                                   *)
(***************************************************************************)
EXTENDS Naturals, Integers, Sequences, FiniteSets, TLC

VARIABLES
  pc,        \* position of the running operation
  input,     \* the raw schema document handed to the command
  opts,      \* GeneratorOptions: singleFile, withRegistry, verboseGeneration
  parsed,    \* ParsedTypes built by parseTypesJson
  written,   \* the fs.writeFileSync calls of the current run, in order
  disk,      \* the file system: path -> text, as a set of [path, text]
  disk1,     \* the file system as the first run left it
  log,       \* console output of the current run, in order
  exitCode,  \* -1 while running; 0 normal completion; 1 process.exit(1)
  run,       \* number of the current run of the command
  arg,       \* argument of the function under test
  ret        \* its result

vars == <<pc, input, opts, parsed, written, disk, disk1, log, exitCode, run, arg, ret>>

(***************************************************************************)
(* JavaScript values                                                       *)
(***************************************************************************)
Undef == [t |-> "undef"]
Null == [t |-> "null"]
Str(s) == [t |-> "str", v |-> s]
Num(n) == [t |-> "num", v |-> n]
Bool(b) == [t |-> "bool", v |-> b]
Arr(s) == [t |-> "arr", v |-> s]
Obj(es) == [t |-> "obj", v |-> es]

\* The conversion to boolean of an if (...) or && test.
Truthy(val) ==
  CASE val.t = "undef" -> FALSE
    [] val.t = "null" -> FALSE
    [] val.t = "str" -> val.v # ""
    [] val.t = "num" -> val.v # 0
    [] val.t = "bool" -> val.v
    [] OTHER -> TRUE

\* o.k : the value of property k of o; undefined when o has none.
\* o?.k is the same with undefined for an o that is null or undefined.
Get(o, k) ==
  IF o.t # "obj" THEN Undef
  ELSE IF \E i \in 1..Len(o.v) : o.v[i][1] = k
       THEN o.v[CHOOSE i \in 1..Len(o.v) : o.v[i][1] = k][2]
       ELSE Undef

\* o[k] = val : the entry is replaced in place, or appended when new.
Put(es, k, val) ==
  IF \E i \in 1..Len(es) : es[i][1] = k
  THEN [i \in 1..Len(es) |-> IF es[i][1] = k THEN <<k, val>> ELSE es[i]]
  ELSE Append(es, <<k, val>>)

(***************************************************************************)
(* Maps (new Map()): the sequence of the entries <<key, value>> in         *)
(* insertion order; set is Put                                             *)
(***************************************************************************)
MapHas(m, k) == \E i \in 1..Len(m) : m[i][1] = k
MapGet(m, k) == m[CHOOSE i \in 1..Len(m) : m[i][1] = k][2]
MapKeys(m) == [i \in 1..Len(m) |-> m[i][1]]

(***************************************************************************)
(* String helpers: String.prototype.endsWith, includes                     *)
(***************************************************************************)
EndsWith(s, suffix) ==
  /\ Len(s) >= Len(suffix)
  /\ SubSeq(s, Len(s) - Len(suffix) + 1, Len(s)) = suffix

Includes(s, part) ==
  \E i \in 1..(Len(s) + 1) :
    /\ i + Len(part) - 1 <= Len(s)
    /\ SubSeq(s, i, i + Len(part) - 1) = part

Digits == "0123456789"
LowerLetters == "abcdefghijklmnopqrstuvwxyz"
UpperLetters == "ABCDEFGHIJKLMNOPQRSTUVWXYZ"
Letters == LowerLetters \o UpperLetters

\* The characters of a string, as a set of one-character strings.
CharsOf(str) == {SubSeq(str, i, i) : i \in 1..Len(str)}
LowerChars == CharsOf(LowerLetters)
UpperChars == CharsOf(UpperLetters)
DigitChars == CharsOf(Digits)
IdentifierStartChars == CharsOf(Letters \o "_$")
IdentifierChars == CharsOf(Letters \o Digits \o "_$")

(***************************************************************************)
(* Categorization: parser.ts                                               *)
(***************************************************************************)
SKIP_BASE_TYPES == {"_media", "_image", "_video"}

\* type Category
Categories == {"blocks", "elements", "pages", "settings"}

\* The null that categorizeContentType returns for a skipped content type.
NoCategory == "null"

categorizeContentTypeIncludes(ct) ==
  IF ct.baseType \in SKIP_BASE_TYPES THEN NoCategory
  ELSE IF ct.baseType = "_page" THEN "pages"
  ELSE IF ct.baseType = "_component"
       THEN IF Includes(ct.key, "Settings") THEN "settings"
            ELSE IF Includes(ct.key, "Element") THEN "elements"
            ELSE "blocks"
  ELSE "blocks"

categorizeContentType(ct) ==
  IF ct.baseType \in SKIP_BASE_TYPES THEN NoCategory
  ELSE IF ct.baseType = "_page" THEN "pages"
  ELSE IF ct.baseType = "_component"
       THEN IF EndsWith(ct.key, "Settings") THEN "settings"
            ELSE IF EndsWith(ct.key, "Element") THEN "elements"
            ELSE "blocks"
  ELSE "blocks"

(***************************************************************************)
(* Dependency extraction: parser.ts                                        *)
(***************************************************************************)
\* [...new Set(deps)] : the first occurrence of each element, in order.
RECURSIVE Dedupe(_)
Dedupe(s) ==
  IF s = <<>> THEN <<>>
  ELSE LET init == Dedupe(SubSeq(s, 1, Len(s) - 1))
           last == s[Len(s)]
       IN IF \E i \in 1..Len(init) : init[i] = last THEN init
          ELSE Append(init, last)

\* The keys one property pushes onto deps: the two if statements of the loop.
DepsOfProp(prop) ==
  (IF /\ Get(prop, "type") = Str("array")
      /\ Get(Get(prop, "items"), "type") = Str("component")
      /\ Truthy(Get(Get(prop, "items"), "contentType"))
   THEN <<Get(Get(prop, "items"), "contentType").v>> ELSE <<>>)
  \o
  (IF /\ Get(prop, "type") = Str("component")
      /\ Truthy(Get(prop, "contentType"))
   THEN <<Get(prop, "contentType").v>> ELSE <<>>)

RECURSIVE CollectDeps(_)
CollectDeps(entries) ==
  IF entries = <<>> THEN <<>>
  ELSE CollectDeps(SubSeq(entries, 1, Len(entries) - 1))
       \o DepsOfProp(entries[Len(entries)][2])

extractDependenciesNoSet(properties) ==
  IF ~Truthy(properties) THEN <<>>
  ELSE CollectDeps(properties.v)

extractDependencies(properties) ==
  IF ~Truthy(properties) THEN <<>>
  ELSE Dedupe(CollectDeps(properties.v))

(***************************************************************************)
(* Normalization: parser.ts                                                *)
(***************************************************************************)
\* The entries of prop, name among them.
WithoutNameKept(entries) == entries

\* const { name, ...rest } = prop : the entries of prop but name.
RECURSIVE WithoutName(_)
WithoutName(entries) ==
  IF entries = <<>> THEN <<>>
  ELSE (IF Head(entries)[1] = "name" THEN <<>> ELSE <<Head(entries)>>)
       \o WithoutName(Tail(entries))

\* The loop over a property array: result.
RECURSIVE KeyByName(_)
KeyByName(props) ==
  IF props = <<>> THEN <<>>
  ELSE LET init == KeyByName(SubSeq(props, 1, Len(props) - 1))
           prop == props[Len(props)]
           name == Get(prop, "name")
       IN IF Truthy(name) THEN Put(init, name.v, Obj(WithoutName(prop.v)))
          ELSE init

normalizeProperties(properties) ==
  IF ~Truthy(properties) THEN Undef
  ELSE IF properties.t = "arr"
       THEN LET result == KeyByName(properties.v)
            IN IF Len(result) > 0 THEN Obj(result) ELSE Undef
  ELSE properties

(***************************************************************************)
(* String.prototype.localeCompare, for keys of letters and digits: the     *)
(* strings are compared letter by letter without regard to case, a digit   *)
(* before a letter and a prefix before its extensions; strings that differ *)
(* in case only are ordered by the first such difference, lower case first *)
(***************************************************************************)

IndexIn(str, c) == CHOOSE i \in 1..Len(str) : SubSeq(str, i, i) = c

PrimaryWeight(c) ==
  IF c \in DigitChars THEN IndexIn(Digits, c)
  ELSE IF c \in LowerChars THEN 10 + IndexIn(LowerLetters, c)
  ELSE IF c \in UpperChars THEN 10 + IndexIn(UpperLetters, c)
  ELSE 0

IsUpper(c) == c \in UpperChars

RECURSIVE PrimaryCompare(_, _, _)
PrimaryCompare(a, b, i) ==
  IF i > Len(a) /\ i > Len(b) THEN 0
  ELSE IF i > Len(a) THEN -1
  ELSE IF i > Len(b) THEN 1
  ELSE LET wa == PrimaryWeight(SubSeq(a, i, i))
           wb == PrimaryWeight(SubSeq(b, i, i))
       IN IF wa < wb THEN -1 ELSE IF wa > wb THEN 1
          ELSE PrimaryCompare(a, b, i + 1)

RECURSIVE CaseCompare(_, _, _)
CaseCompare(a, b, i) ==
  IF i > Len(a) THEN 0
  ELSE LET ua == IsUpper(SubSeq(a, i, i))
           ub == IsUpper(SubSeq(b, i, i))
       IN IF ~ua /\ ub THEN -1 ELSE IF ua /\ ~ub THEN 1
          ELSE CaseCompare(a, b, i + 1)

localeCompare(a, b) ==
  LET primary == PrimaryCompare(a, b, 1)
  IN IF primary # 0 THEN primary ELSE CaseCompare(a, b, 1)

\* The groups left in the order of the document.
SortByKeyOmitted(types) == types

\* Array.prototype.sort((a, b) => a.definition.key.localeCompare(b.definition.key)):
\* a stable sort.
RECURSIVE SortByKey(_)
SortByKey(types) ==
  IF types = <<>> THEN <<>>
  ELSE LET init == SortByKey(SubSeq(types, 1, Len(types) - 1))
           last == types[Len(types)]
           before == {i \in 1..Len(init) :
                        localeCompare(init[i].definition.key, last.definition.key) <= 0}
           n == Cardinality(before)
       IN SubSeq(init, 1, n) \o <<last>> \o SubSeq(init, n + 1, Len(init))

(***************************************************************************)
(* The parser: parser.ts                                                   *)
(***************************************************************************)
\* The state of a parse before its loop: an empty Map and empty groups.
NewParsed ==
  [contentTypes |-> <<>>, displayTemplates |-> <<>>,
   byCategory |-> [c \in Categories |-> <<>>]]

\* The loop over data.contentTypes, from the state acc.
RECURSIVE ProcessContentTypes(_, _)
ProcessContentTypes(cts, acc) ==
  IF cts = <<>> THEN acc
  ELSE LET init == ProcessContentTypes(SubSeq(cts, 1, Len(cts) - 1), acc)
           ct == [cts[Len(cts)] EXCEPT
                    !.properties = normalizeProperties(cts[Len(cts)].properties)]
           category == categorizeContentType(ct)
           categorized == [definition |-> ct, category |-> category,
                           dependencies |-> extractDependencies(ct.properties)]
       IN IF category = NoCategory THEN init
          ELSE [init EXCEPT
                  !.contentTypes = Put(@, ct.key, categorized),
                  !.byCategory[category] = Append(@, categorized)]

\* parseTypesJson, once JSON.parse has returned data.
parseTypesJson(data) ==
  LET looped == ProcessContentTypes(data.contentTypes, NewParsed)
  IN [contentTypes |-> looped.contentTypes,
      displayTemplates |-> data.displayTemplates,
      byCategory |-> [c \in DOMAIN looped.byCategory |->
                        SortByKey(looped.byCategory[c])]]

getRelativeImportPath(fromCategory, toCategory, toFileName) ==
  IF fromCategory = toCategory THEN "./" \o toFileName
  ELSE "../" \o toCategory \o "/" \o toFileName

\* visit(key) of buildDependencyOrder, on the state st of visited and result.
RECURSIVE visit(_, _, _)
RECURSIVE VisitAll(_, _, _)
VisitAll(model, deps, st) ==
  IF deps = <<>> THEN st
  ELSE VisitAll(model, Tail(deps), visit(model, Head(deps), st))

\* visit with result.push(key) before the loop over the dependencies.
visitKeyFirst(model, key, st) ==
  IF key \in st.visited THEN st
  ELSE LET entered == [st EXCEPT !.visited = @ \cup {key}]
       IN IF ~MapHas(model.contentTypes, key) THEN entered
          ELSE VisitAll(model, MapGet(model.contentTypes, key).dependencies,
                        [entered EXCEPT !.result = Append(@, key)])

visit(model, key, st) ==
  IF key \in st.visited THEN st
  ELSE LET entered == [st EXCEPT !.visited = @ \cup {key}]
       IN IF ~MapHas(model.contentTypes, key) THEN entered
          ELSE LET after == VisitAll(model,
                                     MapGet(model.contentTypes, key).dependencies,
                                     entered)
               IN [after EXCEPT !.result = Append(@, key)]

\* The result of the traversal from its last key to its first.
buildDependencyOrderReversed(model) ==
  LET result == VisitAll(model, MapKeys(model.contentTypes),
                         [visited |-> {}, result |-> <<>>]).result
  IN [i \in 1..Len(result) |-> result[Len(result) + 1 - i]]

buildDependencyOrder(model) ==
  VisitAll(model, MapKeys(model.contentTypes),
           [visited |-> {}, result |-> <<>>]).result

(***************************************************************************)
(* Value serialization: generator.ts                                       *)
(***************************************************************************)
\* The width below which an array is written on one line.
InlineWidth == 60


\* String(n) for an integer n.
RECURSIVE NatToString(_)
NatToString(n) ==
  IF n < 10 THEN SubSeq(Digits, n + 1, n + 1)
  ELSE NatToString(n \div 10) \o SubSeq(Digits, (n % 10) + 1, (n % 10) + 1)

NumToString(n) == IF n < 0 THEN "-" \o NatToString(0 - n) ELSE NatToString(n)

\* '  '.repeat(level)
RECURSIVE spaces(_)
spaces(level) == IF level <= 0 THEN "" ELSE "  " \o spaces(level - 1)

\* items.join(sep)
RECURSIVE Join(_, _)
Join(items, sep) ==
  IF items = <<>> THEN ""
  ELSE IF Len(items) = 1 THEN items[1]
  ELSE Join(SubSeq(items, 1, Len(items) - 1), sep) \o sep \o items[Len(items)]

\* val.replace(/'/g, "\\'") : a backslash is put before every quote, and
\* nothing else is changed.
RECURSIVE EscapeQuotes(_)
EscapeQuotes(str) ==
  IF str = "" THEN ""
  ELSE (IF Head(str) = "'" THEN "\\'" ELSE Head(str)) \o EscapeQuotes(Tail(str))

\* /^[a-zA-Z_$][a-zA-Z0-9_$]*$/.test(k)
IsIdentifier(k) ==
  /\ k # ""
  /\ Head(k) \in IdentifierStartChars
  /\ \A i \in 2..Len(k) : SubSeq(k, i, i) \in IdentifierChars

RECURSIVE serialize(_, _)
RECURSIVE SerializeAll(_, _)
RECURSIVE PropLines(_, _)

\* val.map((v) => serialize(v, currentIndent + 1))
SerializeAll(vals, indent) ==
  IF vals = <<>> THEN <<>>
  ELSE <<serialize(Head(vals), indent)>> \o SerializeAll(Tail(vals), indent)

\* entries.map(([k, v]) => ...) of an object at currentIndent = indent - 1
PropLines(entries, indent) ==
  IF entries = <<>> THEN <<>>
  ELSE LET k == Head(entries)[1]
           key == IF IsIdentifier(k) THEN k ELSE "'" \o k \o "'"
       IN <<spaces(indent) \o key \o ": "
              \o serialize(Head(entries)[2], indent) \o ",">>
          \o PropLines(Tail(entries), indent)

serialize(val, currentIndent) ==
  CASE val.t \in {"null", "undef"} -> "undefined"
    [] val.t = "str" -> "'" \o EscapeQuotes(val.v) \o "'"
    [] val.t = "num" -> NumToString(val.v)
    [] val.t = "bool" -> (IF val.v THEN "true" ELSE "false")
    [] val.t = "arr" ->
         IF Len(val.v) = 0 THEN "[]"
         ELSE LET items == SerializeAll(val.v, currentIndent + 1)
              IN IF /\ \A i \in 1..Len(items) : ~Includes(items[i], "\n")
                    /\ Len(Join(items, ", ")) < InlineWidth
                 THEN "[" \o Join(items, ", ") \o "]"
                 ELSE "[\n"
                      \o Join([i \in 1..Len(items) |->
                                 spaces(currentIndent + 1) \o items[i] \o ","], "\n")
                      \o "\n" \o spaces(currentIndent) \o "]"
    [] val.t = "obj" ->
         IF Len(val.v) = 0 THEN "{}"
         ELSE "{\n" \o Join(PropLines(val.v, currentIndent + 1), "\n")
              \o "\n" \o spaces(currentIndent) \o "}"

serializeValue(value, baseIndent) == serialize(value, baseIndent)

(***************************************************************************)
(* Property generation: generator.ts                                       *)
(***************************************************************************)
toConstantName(key, suffix) == IF suffix = "CT" THEN key \o "CT" ELSE key

isDefaultPropertyValueNoGroup(key, value) ==
  \/ key = "sortOrder" /\ value = Num(0)
  \/ key = "maxLength" /\ value = Num(255)
  \/ key = "allowedTypes" /\ value.t = "arr" /\ Len(value.v) = 0
  \/ key = "restrictedTypes" /\ value.t = "arr" /\ Len(value.v) = 0
  \/ key = "localized" /\ value = Bool(FALSE)
  \/ key = "required" /\ value = Bool(FALSE)

isDefaultPropertyValue(key, value) ==
  \/ key = "sortOrder" /\ value = Num(0)
  \/ key = "maxLength" /\ value = Num(255)
  \/ key = "allowedTypes" /\ value.t = "arr" /\ Len(value.v) = 0
  \/ key = "restrictedTypes" /\ value.t = "arr" /\ Len(value.v) = 0
  \/ key = "localized" /\ value = Bool(FALSE)
  \/ key = "required" /\ value = Bool(FALSE)
  \/ key = "group" /\ value = Str("content")

\* prop.type === 'array' && prop.items?.type === 'component' && prop.items.contentType
IsComponentArray(prop) ==
  /\ Get(prop, "type") = Str("array")
  /\ Get(Get(prop, "items"), "type") = Str("component")
  /\ Truthy(Get(Get(prop, "items"), "contentType"))

\* The loop that copies the fields of prop into result.
RECURSIVE CopyFields(_, _, _)
CopyFields(entries, prop, verboseGeneration) ==
  IF entries = <<>> THEN <<>>
  ELSE LET init == CopyFields(SubSeq(entries, 1, Len(entries) - 1), prop,
                              verboseGeneration)
           key == entries[Len(entries)][1]
           value == entries[Len(entries)][2]
       IN IF key = "items" /\ IsComponentArray(prop) THEN init
          ELSE IF ~verboseGeneration /\ isDefaultPropertyValue(key, value) THEN init
          ELSE Put(init, key, value)

\* buildPropertyObject without the lookup of the referenced key: the items
\* descriptor is kept as it is.
buildPropertyObjectKeepsItems(prop, model, componentRefs, verboseGeneration) ==
  LET copied == CopyFields(prop.v, prop, verboseGeneration)
  IN IF ~IsComponentArray(prop)
     THEN [result |-> Obj(copied), componentRefs |-> componentRefs]
     ELSE [result |-> Obj(Put(copied, "items", Get(prop, "items"))),
           componentRefs |-> componentRefs]

\* buildPropertyObject: the object built, and componentRefs as the call
\* leaves it.
buildPropertyObject(prop, model, componentRefs, verboseGeneration) ==
  LET copied == CopyFields(prop.v, prop, verboseGeneration)
      refKey == Get(Get(prop, "items"), "contentType").v
  IN IF ~IsComponentArray(prop)
     THEN [result |-> Obj(copied), componentRefs |-> componentRefs]
     ELSE IF MapHas(model.contentTypes, refKey)
     THEN [result |->
             Obj(Put(copied, "items",
                     Obj(<< <<"type", Str("component")>>,
                            <<"__contentTypeRef", Str(toConstantName(refKey, "CT"))>> >>))),
           componentRefs |->
             Put(componentRefs, refKey,
                 [constantName |-> toConstantName(refKey, "CT"),
                  category |-> MapGet(model.contentTypes, refKey).category,
                  fileName |-> refKey])]
     ELSE [result |-> Obj(Put(copied, "items", Get(prop, "items"))),
           componentRefs |-> componentRefs]

Placeholder == "__contentTypeRef: '"

\* The position of the quote that ends a match of [^']+' starting at from:
\* the first quote at or after from, or 0 when there is none or it is at from.
ClosingQuote(code, from) ==
  LET quotes == {i \in from..Len(code) : SubSeq(code, i, i) = "'"}
  IN IF quotes = {} THEN 0
     ELSE LET first == CHOOSE i \in quotes : \A j \in quotes : i <= j
          IN IF first > from THEN first ELSE 0

\* Whether /__contentTypeRef: '([^']+)'/ matches at position i.
MatchesAt(code, i) ==
  /\ i + Len(Placeholder) - 1 <= Len(code)
  /\ SubSeq(code, i, i + Len(Placeholder) - 1) = Placeholder
  /\ ClosingQuote(code, i + Len(Placeholder)) > 0

\* code.replace(/__contentTypeRef: '([^']+)'/g, 'contentType: $1'), from
\* position i on: the matches are replaced from left to right.
RECURSIVE ReplaceFrom(_, _)
ReplaceFrom(code, i) ==
  LET matches == {j \in i..Len(code) : MatchesAt(code, j)}
  IN IF matches = {} THEN SubSeq(code, i, Len(code))
     ELSE LET at == CHOOSE j \in matches : \A k \in matches : j <= k
              from == at + Len(Placeholder)
              close == ClosingQuote(code, from)
          IN SubSeq(code, i, at - 1) \o "contentType: "
             \o SubSeq(code, from, close - 1) \o ReplaceFrom(code, close + 1)

replaceReferencePlaceholders(code) == ReplaceFrom(code, 1)

(***************************************************************************)
(* Content type generation: generator.ts                                   *)
(***************************************************************************)
\* The loop over Object.entries(def.properties): props, and componentRefs.
RECURSIVE BuildProps(_, _, _, _)
BuildProps(entries, model, componentRefs, verboseGeneration) ==
  IF entries = <<>> THEN [props |-> <<>>, componentRefs |-> componentRefs]
  ELSE LET init == BuildProps(SubSeq(entries, 1, Len(entries) - 1), model,
                              componentRefs, verboseGeneration)
           built == buildPropertyObject(entries[Len(entries)][2], model,
                                        init.componentRefs, verboseGeneration)
       IN [props |-> Put(init.props, entries[Len(entries)][1], built.result),
           componentRefs |-> built.componentRefs]

HasProperties(def) == def.properties.t = "obj" /\ Len(def.properties.v) > 0

\* generateContentType: the code, and componentRefs as the call leaves it.
generateContentType(ct, model, componentRefs, verboseGeneration) ==
  LET def == ct.definition
      built == IF HasProperties(def)
               THEN BuildProps(def.properties.v, model, componentRefs,
                               verboseGeneration)
               ELSE [props |-> <<>>, componentRefs |-> componentRefs]
      obj == Obj(
        << <<"key", Str(def.key)>> >>
        \o (IF def.displayName # "" THEN << <<"displayName", Str(def.displayName)>> >>
            ELSE <<>>)
        \o (IF def.description # "" THEN << <<"description", Str(def.description)>> >>
            ELSE <<>>)
        \o << <<"baseType", Str(def.baseType)>> >>
        \o (IF Len(def.compositionBehaviors) > 0
            THEN << <<"compositionBehaviors",
                      Arr([i \in 1..Len(def.compositionBehaviors) |->
                             Str(def.compositionBehaviors[i])])>> >>
            ELSE <<>>)
        \o (IF HasProperties(def) THEN << <<"properties", Obj(built.props)>> >>
            ELSE <<>>))
      code == "export const " \o toConstantName(def.key, "CT") \o " = contentType("
              \o serializeValue(obj, 0) \o ");"
  IN [code |-> replaceReferencePlaceholders(code),
      componentRefs |-> built.componentRefs]

(***************************************************************************)
(* Display template generation: generator.ts                               *)
(***************************************************************************)
generateDisplayTemplate(template) ==
  LET obj == Obj(
        << <<"key", Str(template.key)>> >>
        \o (IF template.displayName # ""
            THEN << <<"displayName", Str(template.displayName)>> >> ELSE <<>>)
        \o << <<"contentType", Str(template.contentType)>> >>
        \o (IF template.isDefault # Undef
            THEN << <<"isDefault", template.isDefault>> >> ELSE <<>>)
        \o (IF template.settings.t = "obj" /\ Len(template.settings.v) > 0
            THEN << <<"settings", template.settings>> >> ELSE <<>>))
  IN "export const " \o toConstantName(template.key, "DisplayTemplate")
     \o " = displayTemplate(" \o serializeValue(obj, 0) \o ");"

(***************************************************************************)
(* File generation, multi-file mode: generator.ts                          *)
(***************************************************************************)
generateJsDoc(ct) ==
  LET lines == <<"/**">>
        \o (IF ct.displayName # "" THEN <<" * " \o ct.displayName>> ELSE <<>>)
        \o (IF ct.description # ""
            THEN (IF ct.displayName # "" THEN <<" *">> ELSE <<>>)
                 \o <<" * " \o ct.description>>
            ELSE <<>>)
        \o <<" */">>
  IN IF Len(lines) > 2 THEN Join(lines, "\n") ELSE ""

\* templates.filter((t) => t.contentType === key)
TemplatesOf(templates, key) == SelectSeq(templates, LAMBDA t : t.contentType = key)

\* The import line of each entry of componentRefs, in insertion order.
\* generateFile without the loop over componentRefs.
ImportLinesOmitted(ct, componentRefs) == <<>>

ImportLines(ct, componentRefs) ==
  [i \in 1..Len(componentRefs) |->
     "import { " \o componentRefs[i][2].constantName \o " } from '"
     \o getRelativeImportPath(ct.category, componentRefs[i][2].category,
                              componentRefs[i][2].fileName)
     \o "';"]

\* The lines pushed for the display templates of a content type file.
RECURSIVE TemplateLines(_)
TemplateLines(templates) ==
  IF templates = <<>> THEN <<>>
  ELSE <<"", generateDisplayTemplate(Head(templates))>>
       \o TemplateLines(Tail(templates))

generateFile(ct, model, templates, verboseGeneration) ==
  LET generated == generateContentType(ct, model, <<>>, verboseGeneration)
      jsDoc == generateJsDoc(ct.definition)
      lines == <<"import { contentType, displayTemplate } from '@optimizely/cms-sdk';">>
        \o ImportLines(ct, generated.componentRefs)
        \o <<"">>
        \o (IF jsDoc # "" THEN <<jsDoc>> ELSE <<>>)
        \o <<generated.code>>
        \o TemplateLines(TemplatesOf(templates, ct.definition.key))
  IN Join(lines, "\n") \o "\n"

generateIndexFile(types, templates) ==
  LET exports ==
        [i \in 1..Len(types) |->
           LET key == types[i].definition.key
               ctTemplates == TemplatesOf(templates, key)
               allExports == <<toConstantName(key, "CT")>>
                 \o [j \in 1..Len(ctTemplates) |->
                       toConstantName(ctTemplates[j].key, "DisplayTemplate")]
           IN "export { " \o Join(allExports, ", ") \o " } from './" \o key \o "';"]
  IN Join(exports, "\n") \o "\n"

\* The fixed order in which the generator goes through the categories.
categories == <<"elements", "blocks", "pages", "settings">>

\* lines.push(...) over a loop: the lines of each turn, one after another.
RECURSIVE Flatten(_)
Flatten(groups) ==
  IF groups = <<>> THEN <<>>
  ELSE Flatten(SubSeq(groups, 1, Len(groups) - 1)) \o groups[Len(groups)]

\* The root index with a line for each of the four categories.
generateRootIndexFileOfAll(model) ==
  Join([i \in 1..Len(categories) |-> "export * from './" \o categories[i] \o "';"],
       "\n") \o "\n"

generateRootIndexFile(model) ==
  LET lines == Flatten(
        [i \in 1..Len(categories) |->
           IF Len(model.byCategory[categories[i]]) > 0
           THEN <<"export * from './" \o categories[i] \o "';">> ELSE <<>>])
  IN Join(lines, "\n") \o "\n"

(***************************************************************************)
(* Single file generation: generator.ts                                    *)
(***************************************************************************)
\* The number of = signs of a section rule.
RuleWidth == 76

RECURSIVE Repeat(_, _)
Repeat(str, n) == IF n <= 0 THEN "" ELSE str \o Repeat(str, n - 1)

SectionRule == "// " \o Repeat("=", RuleWidth)

\* c.toUpperCase() of one character.
ToUpperCase(c) ==
  IF c \in LowerChars
  THEN LET i == IndexIn(LowerLetters, c) IN SubSeq(UpperLetters, i, i)
  ELSE c

\* category.charAt(0).toUpperCase() + category.slice(1)
Capitalized(category) ==
  IF category = "" THEN ""
  ELSE ToUpperCase(Head(category)) \o Tail(category)

\* The keys of orderedKeys whose content type is of the category.
KeysOfCategory(model, orderedKeys, category) ==
  SelectSeq(orderedKeys,
            LAMBDA key : /\ MapHas(model.contentTypes, key)
                         /\ MapGet(model.contentTypes, key).category = category)

\* The lines of one content type of the single file, its templates after it.
SingleFileEntry(model, key, verboseGeneration) ==
  LET ct == MapGet(model.contentTypes, key)
      jsDoc == generateJsDoc(ct.definition)
      templates == TemplatesOf(model.displayTemplates, key)
  IN (IF jsDoc # "" THEN <<jsDoc>> ELSE <<>>)
     \o <<generateContentType(ct, model, <<>>, verboseGeneration).code, "">>
     \o Flatten([i \in 1..Len(templates) |->
                   <<generateDisplayTemplate(templates[i]), "">>])

\* The section of one category of the single file.
SingleFileSection(model, keys, category, verboseGeneration) ==
  IF Len(keys) = 0 THEN <<>>
  ELSE <<SectionRule, "// " \o Capitalized(category), SectionRule, "">>
       \o Flatten([i \in 1..Len(keys) |->
                     SingleFileEntry(model, keys[i], verboseGeneration)])

\* The identifiers of all the templates.
TemplateNamesUnfiltered(model) ==
  [i \in 1..Len(model.displayTemplates) |->
     toConstantName(model.displayTemplates[i].key, "DisplayTemplate")]

\* The identifiers of the templates whose content type is in the model.
TemplateNames(model) ==
  LET kept == SelectSeq(model.displayTemplates,
                        LAMBDA t : MapHas(model.contentTypes, t.contentType))
  IN [i \in 1..Len(kept) |-> toConstantName(kept[i].key, "DisplayTemplate")]

\* The lines that list the content types of a registry, by category; groups
\* gives the keys of each category.
RegistryTypeLines(groups) ==
  Flatten([i \in 1..Len(categories) |->
             IF Len(groups[categories[i]]) > 0
             THEN <<"  // " \o Capitalized(categories[i])>>
                  \o [j \in 1..Len(groups[categories[i]]) |->
                        "  " \o toConstantName(groups[categories[i]][j], "CT") \o ","]
             ELSE <<>>])

\* The arrays and the initialization routine that end a registry.
RegistryArrays(groups, templateNames) ==
  <<"/**",
    " * Array of all content types for registry initialization",
    " */",
    "export const allContentTypes = [",
    "  // Built-in experience types",
    "  BlankExperienceContentType,",
    "  BlankSectionContentType,">>
  \o RegistryTypeLines(groups)
  \o <<"];", "",
       "/**",
       " * Array of all display templates for registry initialization",
       " */",
       "export const allDisplayTemplates = [">>
  \o [i \in 1..Len(templateNames) |-> "  " \o templateNames[i] \o ","]
  \o <<"];", "",
       "/**",
       " * Initialize all registries",
       " * Call this in your root layout before rendering CMS content",
       " */",
       "export function initAllRegistries() {",
       "  initContentTypeRegistry(allContentTypes);",
       "  initDisplayTemplateRegistry(allDisplayTemplates);",
       "}",
       "">>

generateSingleFile(model, withRegistry, verboseGeneration) ==
  LET orderedKeys == buildDependencyOrder(model)
      byCategory == [c \in Categories |-> KeysOfCategory(model, orderedKeys, c)]
      lines ==
        (IF withRegistry
         THEN <<"import {",
                "  contentType,",
                "  displayTemplate,",
                "  initContentTypeRegistry,",
                "  initDisplayTemplateRegistry,",
                "  BlankExperienceContentType,",
                "  BlankSectionContentType,",
                "} from '@optimizely/cms-sdk';">>
         ELSE <<"import { contentType, displayTemplate } from '@optimizely/cms-sdk';">>)
        \o <<"">>
        \o Flatten([i \in 1..Len(categories) |->
                      SingleFileSection(model, byCategory[categories[i]],
                                        categories[i], verboseGeneration)])
        \o (IF withRegistry
            THEN <<SectionRule, "// Registry", SectionRule, "">>
                 \o RegistryArrays(byCategory, TemplateNames(model))
            ELSE <<>>)
  IN Join(lines, "\n")

(***************************************************************************)
(* Registry generation: generator.ts                                       *)
(***************************************************************************)
generateRegistryFile(model) ==
  LET groups == [c \in Categories |->
                   [i \in 1..Len(model.byCategory[c]) |->
                      model.byCategory[c][i].definition.key]]
      templateExports == TemplateNames(model)
      lines ==
        <<"/**",
          " * Content Type and Display Template Registry Initialization",
          " * Auto-generated by optimizely-cms-typegen",
          " */",
          "",
          "import {",
          "  initContentTypeRegistry,",
          "  initDisplayTemplateRegistry,",
          "  BlankExperienceContentType,",
          "  BlankSectionContentType,",
          "} from '@optimizely/cms-sdk';",
          "",
          "// Import all generated content types",
          "import {">>
        \o RegistryTypeLines(groups)
        \o <<"} from './index';", "">>
        \o (IF Len(templateExports) > 0
            THEN <<"// Import display templates", "import {">>
                 \o [i \in 1..Len(templateExports) |-> "  " \o templateExports[i] \o ","]
                 \o <<"} from './index';", "">>
            ELSE <<>>)
        \o RegistryArrays(groups, templateExports)
  IN Join(lines, "\n")

(***************************************************************************)
(* The main generator: generator.ts                                        *)
(***************************************************************************)
\* path.join(dir, name)
PathJoin(dir, name) == dir \o "/" \o name

File(path, text) == [path |-> path, text |-> text]

\* The writes of one category with the files of the types next to the root
\* index, not in the directory of the category.
CategoryFilesInOutdir(model, options, category) ==
  LET types == model.byCategory[category]
      categoryDir == PathJoin(options.outdir, category)
  IN IF Len(types) = 0 THEN <<>>
     ELSE [i \in 1..Len(types) |->
             File(PathJoin(options.outdir, types[i].definition.key \o ".ts"),
                  generateFile(types[i], model, model.displayTemplates,
                               options.verboseGeneration))]
          \o <<File(PathJoin(categoryDir, "index.ts"),
                    generateIndexFile(types, model.displayTemplates))>>

\* The writes of one category in multi-file mode: a file for each content
\* type of the group, then the index of the category.
CategoryFiles(model, options, category) ==
  LET types == model.byCategory[category]
      categoryDir == PathJoin(options.outdir, category)
  IN IF Len(types) = 0 THEN <<>>
     ELSE [i \in 1..Len(types) |->
             File(PathJoin(categoryDir, types[i].definition.key \o ".ts"),
                  generateFile(types[i], model, model.displayTemplates,
                               options.verboseGeneration))]
          \o <<File(PathJoin(categoryDir, "index.ts"),
                    generateIndexFile(types, model.displayTemplates))>>

\* generate: the fs.writeFileSync calls it makes, in order.
generate(model, options) ==
  IF options.singleFile
  THEN <<File(options.outdir,
              generateSingleFile(model, options.withRegistry,
                                 options.verboseGeneration))>>
  ELSE Flatten([i \in 1..Len(categories) |->
                  CategoryFiles(model, options, categories[i])])
       \o <<File(PathJoin(options.outdir, "index.ts"), generateRootIndexFile(model))>>
       \o (IF options.withRegistry
           THEN <<File(PathJoin(options.outdir, "registry.ts"),
                       generateRegistryFile(model))>>
           ELSE <<>>)

(***************************************************************************)
(* Values of the variables a specification does not use                    *)
(***************************************************************************)
NoInput == [ok |-> FALSE, contentTypes |-> <<>>, displayTemplates |-> <<>>]
NoOpts ==
  [outdir |-> "", singleFile |-> FALSE, withRegistry |-> FALSE,
   verboseGeneration |-> FALSE]
EmptyParsed == NewParsed

PipelineIdle ==
  /\ input = NoInput
  /\ opts = NoOpts
  /\ parsed = EmptyParsed
  /\ written = <<>>
  /\ disk = {}
  /\ disk1 = {}
  /\ log = <<>>
  /\ exitCode = -1
  /\ run = 0

PipelineUnchanged ==
  UNCHANGED <<input, opts, parsed, written, disk, disk1, log, exitCode, run>>

(***************************************************************************)
(* The command: cli.ts                                                     *)
(***************************************************************************)
\* The lines console.log writes once parseTypesJson has returned.
FoundLines(model) ==
  <<"Found " \o NumToString(Len(model.contentTypes)) \o " content types",
    "  - Elements: " \o NumToString(Len(model.byCategory["elements"])),
    "  - Blocks: " \o NumToString(Len(model.byCategory["blocks"])),
    "  - Pages: " \o NumToString(Len(model.byCategory["pages"])),
    "  - Settings: " \o NumToString(Len(model.byCategory["settings"])),
    "Found " \o NumToString(Len(model.displayTemplates)) \o " display templates",
    "">>

\* fs.writeFileSync(path, text, 'utf-8') on the file system d.
\* A write that appended to the file already at the path.
WriteFileAppends(d, file) ==
  {f \in d : f.path # file.path}
  \cup {[path |-> file.path, text |-> f.text \o file.text] : f \in {g \in d : g.path = file.path}}
  \cup (IF \E f \in d : f.path = file.path THEN {} ELSE {file})

\* fs.writeFileSync(path, text): the file at the path is replaced.
WriteFile(d, file) == {f \in d : f.path # file.path} \cup {file}

RECURSIVE WriteAll(_, _)
WriteAll(d, files) ==
  IF files = <<>> THEN d
  ELSE WriteAll(WriteFile(d, Head(files)), Tail(files))

\* The command with a try block that swallowed the parse error and went on
\* with an empty document.
actionSwallowsParseError(raw, options, d) ==
  LET model == IF raw.ok THEN parseTypesJson(raw) ELSE NewParsed
      files == generate(model, [options EXCEPT !.verboseGeneration = FALSE])
  IN [parsed |-> model,
      written |-> files,
      disk |-> WriteAll(d, files),
      log |-> <<"Parsing: types.json">> \o FoundLines(model)
              \o [i \in 1..Len(files) |-> "Generated: " \o files[i].path]
              \o <<"", "Done!">>,
      exitCode |-> 0]

\* The action of the command on the raw text, the options and the file
\* system d: the try block up to the first exception, and the catch block
\* when JSON.parse throws.  generate gets outdir, singleFile and
\* withRegistry, never verboseGeneration.
action(raw, options, d) ==
  IF raw.ok
  THEN LET model == parseTypesJson(raw)
           files == generate(model, [options EXCEPT !.verboseGeneration = FALSE])
       IN [parsed |-> model,
           written |-> files,
           disk |-> WriteAll(d, files),
           log |-> <<"Parsing: types.json">> \o FoundLines(model)
                   \o [i \in 1..Len(files) |-> "Generated: " \o files[i].path]
                   \o <<"", "Done!">>,
           exitCode |-> 0]
  ELSE [parsed |-> EmptyParsed,
        written |-> <<>>,
        disk |-> d,
        log |-> <<"Parsing: types.json", "Error: Unexpected token in JSON">>,
        exitCode |-> 1]

\* One run of the command, from its start to the end of the process.
Command ==
  /\ pc = "start"
  /\ \E outcome \in {action(input, opts, disk)} :
       /\ parsed' = outcome.parsed
       /\ written' = outcome.written
       /\ disk' = outcome.disk
       /\ log' = outcome.log
       /\ exitCode' = outcome.exitCode
  /\ pc' = "exited"
  /\ UNCHANGED <<input, opts, disk1, run, arg, ret>>

\* The command is run once more on the same input with the same options: a
\* new process, the file system as the run before left it.
MaxRuns == 2

RunAgain ==
  /\ pc = "exited"
  /\ run < MaxRuns
  /\ run' = run + 1
  /\ disk1' = IF run = 1 THEN disk ELSE disk1
  /\ pc' = "start"
  /\ parsed' = EmptyParsed
  /\ written' = <<>>
  /\ log' = <<>>
  /\ exitCode' = -1
  /\ UNCHANGED <<input, opts, disk, arg, ret>>

(***************************************************************************)
(* The schema documents the command is run on                              *)
(***************************************************************************)
MaxTypes == 2

\* A property collection with one array of components of the content type ref.
ArrayOf(ref) ==
  Obj(<< <<"items",
           Obj(<< <<"type", Str("array")>>,
                  <<"items", Obj(<< <<"type", Str("component")>>,
                                    <<"contentType", Str(ref)>> >>)>>,
                  <<"sortOrder", Num(0)>> >>)>> >>)

\* The same collection as a sequence of records that carry their name.
ArrayOfListed(ref) ==
  Arr(<<Obj(<< <<"name", Str("items")>>,
               <<"type", Str("array")>>,
               <<"items", Obj(<< <<"type", Str("component")>>,
                                 <<"contentType", Str(ref)>> >>)>> >>)>>)

\* A property collection with one component property of the content type ref.
ComponentOf(ref) ==
  Obj(<< <<"link", Obj(<< <<"type", Str("component")>>,
                          <<"contentType", Str(ref)>> >>)>> >>)

ContentType(key, baseType, properties) ==
  [key |-> key, baseType |-> baseType,
   displayName |-> IF EndsWith(key, "Element") THEN "" ELSE key \o " type",
   description |-> IF baseType = "_page" THEN "A page" ELSE "",
   compositionBehaviors |-> IF baseType = "_page" THEN <<>> ELSE <<"sectionEnabled">>,
   properties |-> properties]

Template(key, contentType) ==
  [key |-> key, displayName |-> "", contentType |-> contentType,
   isDefault |-> IF key = "DefaultTemplate" THEN Bool(TRUE) ELSE Undef,
   settings |-> IF key = "DefaultTemplate" THEN Undef
                ELSE Obj(<< <<"level", Obj(<< <<"sortOrder", Num(0)>> >>)>> >>)]

\* The start of the command on a document of at most MaxTypes content types
\* out of Types, or on a text that is not JSON.
InitCommand(Types, Templates, Options, Malformed) ==
  /\ \/ /\ Malformed
        /\ input = NoInput
     \/ \E n \in 0..MaxTypes :
          \E c \in [1..n -> Types], t \in Templates :
            input = [ok |-> TRUE, contentTypes |-> c, displayTemplates |-> t]
  /\ opts \in Options
  /\ pc = "start"
  /\ parsed = EmptyParsed
  /\ written = <<>>
  /\ disk = {}
  /\ disk1 = {}
  /\ log = <<>>
  /\ exitCode = -1
  /\ run = 1
  /\ arg = Undef
  /\ ret = Undef

AllOptions ==
  {[outdir |-> IF sf THEN "out.ts" ELSE "out", singleFile |-> sf, withRegistry |-> wr,
    verboseGeneration |-> FALSE] : sf \in BOOLEAN, wr \in BOOLEAN}

\* Content types of every category, one that is skipped, references to keys
\* in the document and to the key Ghost that is in none, two that refer to
\* each other, definitions that share a key within a category and across
\* categories.
SomeTypes ==
  {ContentType("Hero", "_component", ArrayOf("TagElement")),
   ContentType("Hero", "_page", Undef),
   ContentType("Hero", "_media", Undef),
   ContentType("Card", "_component", ArrayOf("Hero")),
   ContentType("TagElement", "_component", ArrayOfListed("Ghost")),
   ContentType("TagElement", "_component", ComponentOf("Hero")),
   ContentType("HomePage", "_page", Undef),
   ContentType("SiteSettings", "_component", Undef)}

SomeTemplates ==
  {<<>>,
   <<Template("DefaultTemplate", "Hero")>>,
   <<Template("GhostTemplate", "Ghost"), Template("TagTemplate", "TagElement")>>}

Init == InitCommand(SomeTypes, SomeTemplates, AllOptions, TRUE)

Next == Command

Spec == Init /\ [][Next]_vars

(***************************************************************************)
(* categorizeContentType applied to every (baseType, key)                  *)
(***************************************************************************)
CatBaseTypes ==
  {"_media", "_image", "_video", "_page", "_component", "_experience",
   "_section", "component", "_Page", ""}

CatKeys ==
  {"Foo", "FooSettings", "FooElement", "Settings", "Element",
   "SettingsElement", "ElementSettings", "Elements", "FooSetting",
   "settings", "element", "ElementFoo", "SettingsFoo", ""}

InitCat ==
  /\ pc = "call"
  /\ arg \in [baseType : CatBaseTypes, key : CatKeys]
  /\ ret = Undef
  /\ PipelineIdle

CallCategorize ==
  /\ pc = "call"
  /\ ret' = categorizeContentType(arg)
  /\ pc' = "return"
  /\ UNCHANGED arg
  /\ PipelineUnchanged

NextCat == CallCategorize

SpecCat == InitCat /\ [][NextCat]_vars

\* C1: categorizeContentType is total and decided by the first matching rule:
\* a media baseType gives the skip result whatever the key; else _page gives
\* pages whatever the key; else _component gives settings for a key ending in
\* "Settings", elements for a key ending in "Element", blocks otherwise; every
\* other baseType gives blocks.
C1_CategorizeTable ==
  pc = "return" =>
    /\ ret \in Categories \cup {NoCategory}
    /\ (arg.baseType \in {"_media", "_image", "_video"}) => ret = NoCategory
    /\ (arg.baseType = "_page") => ret = "pages"
    /\ (arg.baseType = "_component" /\ EndsWith(arg.key, "Settings"))
         => ret = "settings"
    /\ (arg.baseType = "_component" /\ ~EndsWith(arg.key, "Settings")
          /\ EndsWith(arg.key, "Element")) => ret = "elements"
    /\ (arg.baseType = "_component" /\ ~EndsWith(arg.key, "Settings")
          /\ ~EndsWith(arg.key, "Element")) => ret = "blocks"
    /\ (arg.baseType \notin {"_media", "_image", "_video", "_page", "_component"})
         => ret = "blocks"

C1_Witness ==
  /\ pc = "return"
  /\ arg.baseType = "_component"
  /\ arg.key = "SettingsElement"
  /\ ret = "elements"

(***************************************************************************)
(* extractDependencies applied to property mappings                        *)
(***************************************************************************)
MaxProps == 2

DepRefs == {Undef, Str(""), Str("X"), Str("Y")}

DepItems ==
  {Undef}
  \cup {Obj(<< <<"type", Str("component")>>, <<"contentType", r>> >>) : r \in DepRefs}
  \cup {Obj(<< <<"type", Str("component")>> >>),
        Obj(<< <<"type", Str("string")>>, <<"contentType", Str("X")>> >>)}

DepProps ==
  {Obj(<< <<"type", Str(ty)>>, <<"items", it>>, <<"contentType", r>> >>) :
     ty \in {"array", "component", "string"}, it \in DepItems,
     r \in {Undef, Str("X"), Str("Y")}}

DepNames == <<"a", "b", "c", "d">>

InitDeps ==
  /\ pc = "call"
  /\ \/ arg = Undef
     \/ \E n \in 0..MaxProps : \E f \in [1..n -> DepProps] :
          arg = Obj([i \in 1..n |-> <<DepNames[i], f[i]>>])
  /\ ret = Undef
  /\ PipelineIdle

CallExtractDependencies ==
  /\ pc = "call"
  /\ ret' = extractDependencies(arg)
  /\ pc' = "return"
  /\ UNCHANGED arg
  /\ PipelineUnchanged

NextDeps == CallExtractDependencies

SpecDeps == InitDeps /\ [][NextDeps]_vars

\* The keys the property mapping references by an array of components.
ArrayRefs(properties) ==
  IF properties.t # "obj" THEN {}
  ELSE {e[2].v : e \in
         {<<i, Get(Get(properties.v[i][2], "items"), "contentType")>> :
            i \in {j \in 1..Len(properties.v) :
                     /\ Get(properties.v[j][2], "type") = Str("array")
                     /\ Get(Get(properties.v[j][2], "items"), "type") = Str("component")
                     /\ Get(Get(properties.v[j][2], "items"), "contentType").t = "str"
                     /\ Get(Get(properties.v[j][2], "items"), "contentType").v # ""}}}

\* The keys the property mapping references by a direct component property.
DirectRefs(properties) ==
  IF properties.t # "obj" THEN {}
  ELSE {e[2].v : e \in
         {<<i, Get(properties.v[i][2], "contentType")>> :
            i \in {j \in 1..Len(properties.v) :
                     /\ Get(properties.v[j][2], "type") = Str("component")
                     /\ Get(properties.v[j][2], "contentType").t = "str"
                     /\ Get(properties.v[j][2], "contentType").v # ""}}}

\* C4: extractDependencies returns exactly the keys referenced by arrays of
\* components and by direct component properties, each key once.
C4_DepsExactOnce ==
  pc = "return" =>
    /\ {ret[i] : i \in 1..Len(ret)} = ArrayRefs(arg) \cup DirectRefs(arg)
    /\ \A i, j \in 1..Len(ret) : ret[i] = ret[j] => i = j

C4_Witness ==
  /\ pc = "return"
  /\ "X" \in ArrayRefs(arg) \cap DirectRefs(arg)
  /\ ret = <<"X">>

(***************************************************************************)
(* serializeValue applied to values, and the text read back                *)
(***************************************************************************)
MaxSerLen == 2

\* 58 characters: with its two quotes the literal is InlineWidth wide.
LongString == "aaaaaaaaaaaaaaaaaaaaaaaaaaaaaaaaaaaaaaaaaaaaaaaaaaaaaaaaaa"

SerStrings == {"", "a", "it's", "'", "\\", "a\\n", "\\'", LongString}

SerPrims ==
  {Null, Num(0), Num(7), Num(255), Bool(TRUE), Bool(FALSE)}
  \cup {Str(x) : x \in SerStrings}

SerElems ==
  SerPrims \cup
  {Arr(<<>>), Obj(<<>>), Arr(<<Num(1), Str("b")>>),
   Obj(<< <<"k", Bool(TRUE)>> >>),
   Arr(<<Obj(<< <<"x-y", Arr(<<Null>>)>> >>)>>)}

SerKeys == <<"key", "b-c", "_x1", "$d">>

InitSer ==
  /\ pc = "call"
  /\ \/ arg \in SerPrims
     \/ \E n \in 0..MaxSerLen : \E f \in [1..n -> SerElems] : arg = Arr(f)
     \/ \E n \in 0..MaxSerLen : \E f \in [1..n -> SerElems] :
          arg = Obj([i \in 1..n |-> <<SerKeys[i], f[i]>>])
  /\ ret = Undef
  /\ PipelineIdle

CallSerializeValue ==
  /\ pc = "call"
  /\ ret' = serializeValue(arg, 0)
  /\ pc' = "return"
  /\ UNCHANGED arg
  /\ PipelineUnchanged

NextSer == CallSerializeValue

SpecSer == InitSer /\ [][NextSer]_vars

\* Reading a literal back, as the language that the text is written in reads
\* it: undefined, numbers, true and false, quoted strings with backslash
\* escapes, [ ... ] and { ... } with an optional trailing comma; any other
\* identifier is a symbolic reference to the constant of that name.
Ref(name) == [t |-> "ref", v |-> name]
ParseFail == [ok |-> FALSE, v |-> Undef, i |-> 0]
ParseOk(val, next) == [ok |-> TRUE, v |-> val, i |-> next]

CharAt(s, i) == IF i >= 1 /\ i <= Len(s) THEN SubSeq(s, i, i) ELSE ""

RECURSIVE SkipWs(_, _)
SkipWs(s, i) == IF CharAt(s, i) \in {" ", "\n"} THEN SkipWs(s, i + 1) ELSE i

\* The character an escape sequence \e stands for (\b, \v, \0, \x and \u do
\* not occur in the strings read here).
Unescape(e) ==
  CASE e = "n" -> "\n" [] e = "t" -> "\t" [] e = "r" -> "\r" [] e = "f" -> "\f"
    [] OTHER -> e

\* The body of a quoted string from position i, acc being what was read.
RECURSIVE ReadString(_, _, _)
ReadString(s, i, acc) ==
  LET c == CharAt(s, i)
  IN CASE c = "" -> ParseFail
       [] c = "\n" -> ParseFail
       [] c = "'" -> ParseOk(acc, i + 1)
       [] c = "\\" ->
            IF CharAt(s, i + 1) = "" THEN ParseFail
            ELSE ReadString(s, i + 2, acc \o Unescape(CharAt(s, i + 1)))
       [] OTHER -> ReadString(s, i + 1, acc \o c)

RECURSIVE ReadDigits(_, _, _)
ReadDigits(s, i, acc) ==
  IF CharAt(s, i) \in DigitChars
  THEN ReadDigits(s, i + 1,
         10 * acc + ((CHOOSE d \in 1..10 : SubSeq(Digits, d, d) = CharAt(s, i)) - 1))
  ELSE ParseOk(acc, i)

RECURSIVE ReadIdentifier(_, _, _)
ReadIdentifier(s, i, acc) ==
  IF CharAt(s, i) \in IdentifierChars
  THEN ReadIdentifier(s, i + 1, acc \o CharAt(s, i))
  ELSE ParseOk(acc, i)

RECURSIVE ReadValue(_, _)
RECURSIVE ReadElements(_, _, _)
RECURSIVE ReadMembers(_, _, _)

ReadElements(s, i, acc) ==
  LET j == SkipWs(s, i)
  IN IF CharAt(s, j) = "]" THEN ParseOk(Arr(acc), j + 1)
     ELSE LET e == ReadValue(s, j)
              k == SkipWs(s, e.i)
          IN IF ~e.ok THEN ParseFail
             ELSE IF CharAt(s, k) = "," THEN ReadElements(s, k + 1, Append(acc, e.v))
             ELSE IF CharAt(s, k) = "]" THEN ParseOk(Arr(Append(acc, e.v)), k + 1)
             ELSE ParseFail

ReadMembers(s, i, acc) ==
  LET j == SkipWs(s, i)
  IN IF CharAt(s, j) = "}" THEN ParseOk(Obj(acc), j + 1)
     ELSE LET name == IF CharAt(s, j) = "'" THEN ReadString(s, j + 1, "")
                      ELSE IF CharAt(s, j) \in IdentifierStartChars
                           THEN ReadIdentifier(s, j, "")
                      ELSE IF CharAt(s, j) \in DigitChars
                           THEN LET d == ReadDigits(s, j, 0)
                                IN ParseOk(NumToString(d.v), d.i)
                      ELSE ParseFail
              c == SkipWs(s, name.i)
              e == ReadValue(s, c + 1)
              k == SkipWs(s, e.i)
          IN IF ~name.ok \/ CharAt(s, c) # ":" THEN ParseFail
             ELSE IF ~e.ok THEN ParseFail
             ELSE IF CharAt(s, k) = "," THEN ReadMembers(s, k + 1, Put(acc, name.v, e.v))
             ELSE IF CharAt(s, k) = "}" THEN ParseOk(Obj(Put(acc, name.v, e.v)), k + 1)
             ELSE ParseFail

ReadValue(s, i) ==
  LET j == SkipWs(s, i)
      c == CharAt(s, j)
  IN CASE c = "'" ->
            LET r == ReadString(s, j + 1, "")
            IN IF r.ok THEN ParseOk(Str(r.v), r.i) ELSE ParseFail
       [] c = "[" -> ReadElements(s, j + 1, <<>>)
       [] c = "{" -> ReadMembers(s, j + 1, <<>>)
       [] c = "-" /\ CharAt(s, j + 1) \in DigitChars ->
            LET r == ReadDigits(s, j + 1, 0) IN ParseOk(Num(0 - r.v), r.i)
       [] c \in DigitChars ->
            LET r == ReadDigits(s, j, 0) IN ParseOk(Num(r.v), r.i)
       [] c \in IdentifierStartChars ->
            LET r == ReadIdentifier(s, j, "")
            IN CASE r.v = "undefined" -> ParseOk(Undef, r.i)
                 [] r.v = "true" -> ParseOk(Bool(TRUE), r.i)
                 [] r.v = "false" -> ParseOk(Bool(FALSE), r.i)
                 [] OTHER -> ParseOk(Ref(r.v), r.i)
       [] OTHER -> ParseFail

\* The value a whole text denotes; not ok when the text is no literal.
Reparse(text) ==
  LET r == ReadValue(text, 1)
  IN IF r.ok /\ SkipWs(text, r.i) = Len(text) + 1 THEN r ELSE ParseFail

\* null and an absent value are one value, the absence the literal denotes.
RECURSIVE Absent(_)
Absent(val) ==
  CASE val.t = "null" -> Undef
    [] val.t = "arr" -> Arr([i \in 1..Len(val.v) |-> Absent(val.v[i])])
    [] val.t = "obj" ->
         Obj([i \in 1..Len(val.v) |-> <<val.v[i][1], Absent(val.v[i][2])>>])
    [] OTHER -> val

RECURSIVE HasBackslash(_)
HasBackslash(val) ==
  CASE val.t = "str" -> Includes(val.v, "\\")
    [] val.t = "arr" -> \E i \in 1..Len(val.v) : HasBackslash(val.v[i])
    [] val.t = "obj" -> \E i \in 1..Len(val.v) : HasBackslash(val.v[i][2])
    [] OTHER -> FALSE

\* C6: the text serializeValue returns, read back, is the value serialized,
\* for every value of primitives (strings with quotes and backslashes
\* included), sequences and string-keyed mappings.
C6_RoundTrip ==
  pc = "return" =>
    /\ Reparse(ret).ok
    /\ Reparse(ret).v = Absent(arg)

\* The round trip of the values whose strings hold no backslash.
RoundTripWithoutBackslash ==
  (pc = "return" /\ ~HasBackslash(arg)) =>
    /\ Reparse(ret).ok
    /\ Reparse(ret).v = Absent(arg)

(***************************************************************************)
(* generateContentType applied to one property, in both modes              *)
(***************************************************************************)
HasKey(o, k) == o.t = "obj" /\ \E i \in 1..Len(o.v) : o.v[i][1] = k

\* A field of a property: nothing when the value is absent.
Field(name, value) == IF value = Undef THEN <<>> ELSE << <<name, value>> >>

NoDefinition ==
  [key |-> "", baseType |-> "", displayName |-> "", description |-> "",
   compositionBehaviors |-> <<>>, properties |-> Undef]

InitProp ==
  /\ pc = "call"
  /\ \E so \in {Undef, Num(0), Num(1), Str("0")},
        ml \in {Undef, Num(255), Num(256)},
        al \in {Undef, Arr(<<>>), Arr(<<Str("X")>>)},
        re \in {Undef, Arr(<<>>), Arr(<<Str("X")>>)},
        lo \in {Undef, Bool(FALSE), Bool(TRUE)},
        rq \in {Undef, Bool(FALSE), Bool(TRUE), Null},
        gr \in {Undef, Str("content"), Str("meta")},
        vb \in BOOLEAN :
       arg = [prop |-> Obj(<< <<"type", Str("string")>> >>
                           \o Field("sortOrder", so) \o Field("maxLength", ml)
                           \o Field("allowedTypes", al)
                           \o Field("restrictedTypes", re)
                           \o Field("localized", lo) \o Field("required", rq)
                           \o Field("group", gr)),
              verbose |-> vb]
  /\ ret = Undef
  /\ PipelineIdle

CallGenerateContentType ==
  /\ pc = "call"
  /\ ret' = generateContentType(
              [definition |-> [NoDefinition EXCEPT !.key = "Foo",
                                 !.baseType = "_component",
                                 !.properties = Obj(<< <<"p", arg.prop>> >>)],
               category |-> "blocks", dependencies |-> <<>>],
              EmptyParsed, <<>>, arg.verbose).code
  /\ pc' = "return"
  /\ UNCHANGED arg
  /\ PipelineUnchanged

NextProp == CallGenerateContentType

SpecProp == InitProp /\ [][NextProp]_vars

\* The object literal a generated contentType(...) or displayTemplate(...)
\* statement passes, read back.
GeneratedObject(code) ==
  LET opens == {i \in 1..Len(code) : SubSeq(code, i, i) = "("}
      open == CHOOSE i \in opens : \A j \in opens : i <= j
  IN Reparse(SubSeq(code, open + 1, Len(code) - 2))

DefaultTable ==
  {<<"sortOrder", Num(0)>>, <<"maxLength", Num(255)>>,
   <<"allowedTypes", Arr(<<>>)>>, <<"restrictedTypes", Arr(<<>>)>>,
   <<"localized", Bool(FALSE)>>, <<"required", Bool(FALSE)>>,
   <<"group", Str("content")>>}

\* The property p of the content type that the generated code defines.
GeneratedProperty(code) == Get(Get(GeneratedObject(code).v, "properties"), "p")

\* C5: a field of the default table whose value is the default is absent from
\* the generated content type in non-verbose mode and present with its value
\* in verbose mode; a field with another value is present in both modes.
C5_DefaultElision ==
  pc = "return" =>
    LET read == GeneratedObject(ret)
        out == Get(Get(read.v, "properties"), "p")
    IN /\ read.ok
       /\ \A d \in DefaultTable :
            HasKey(arg.prop, d[1]) =>
              IF Get(arg.prop, d[1]) = d[2] /\ ~arg.verbose
              THEN ~HasKey(out, d[1])
              ELSE /\ HasKey(out, d[1])
                   /\ Get(out, d[1]) = Absent(Get(arg.prop, d[1]))

C5_Witness ==
  /\ pc = "return"
  /\ ~arg.verbose
  /\ Get(arg.prop, "sortOrder") = Num(0)
  /\ Get(arg.prop, "group") = Str("content")
  /\ Get(arg.prop, "maxLength") = Num(256)
  /\ ~HasKey(GeneratedProperty(ret), "sortOrder")
  /\ ~HasKey(GeneratedProperty(ret), "group")
  /\ Get(GeneratedProperty(ret), "maxLength") = Num(256)


(***************************************************************************)
(* The command: failure on malformed input                                 *)
(***************************************************************************)
StartsWith(s, prefix) ==
  /\ Len(s) >= Len(prefix)
  /\ SubSeq(s, 1, Len(prefix)) = prefix

LinesWith(prefix) == {i \in 1..Len(log) : StartsWith(log[i], prefix)}

\* C10: when the raw text is not well-formed the run fails: one error is
\* reported, generation does not start (nothing is written, before or after
\* the exit), the exit status is not zero and success is not reported.
C10_MalformedFails ==
  ~input.ok =>
    /\ written = <<>>
    /\ disk = {}
    /\ LinesWith("Generated: ") = {}
    /\ LinesWith("Done!") = {}
    /\ pc = "exited" =>
         /\ exitCode = 1
         /\ Cardinality(LinesWith("Error: ")) = 1
         /\ log[Len(log)] = "Error: Unexpected token in JSON"

C10_Witness ==
  /\ ~input.ok
  /\ pc = "exited"
  /\ exitCode = 1
  /\ log = <<"Parsing: types.json", "Error: Unexpected token in JSON">>

(***************************************************************************)
(* The command: references to keys absent from the model                   *)
(***************************************************************************)
\* The dependencies of the content types that are not keys of the model.
DanglingDependencies(model) ==
  UNION {{<<model.contentTypes[i][1], model.contentTypes[i][2].dependencies[j]>> :
            j \in {k \in 1..Len(model.contentTypes[i][2].dependencies) :
                     ~MapHas(model.contentTypes,
                             model.contentTypes[i][2].dependencies[k])}} :
           i \in 1..Len(model.contentTypes)}

\* The display templates whose content type is not a key of the model.
DanglingTemplates(model) ==
  {i \in 1..Len(model.displayTemplates) :
     ~MapHas(model.contentTypes, model.displayTemplates[i].contentType)}

DanglingCount(model) ==
  Cardinality(DanglingDependencies(model)) + Cardinality(DanglingTemplates(model))

\* The lines the command prints about something other than dangling
\* references.
IsOtherReport(line) ==
  \/ line \in {"", "Done!"}
  \/ StartsWith(line, "Parsing: ")
  \/ StartsWith(line, "Found ")
  \/ StartsWith(line, "  - ")
  \/ StartsWith(line, "Generated: ")

\* C8: a run on a model with n > 0 references to keys absent from the model
\* succeeds, and its output has a line that reports n.
C8_DanglingReported ==
  (pc = "exited" /\ input.ok /\ DanglingCount(parsed) > 0) =>
    /\ exitCode = 0
    /\ \E i \in 1..Len(log) :
         /\ ~IsOtherReport(log[i])
         /\ Includes(log[i], NumToString(DanglingCount(parsed)))

\* The part of C8 the command meets: the run with dangling references
\* succeeds.
DanglingRunSucceeds ==
  (pc = "exited" /\ input.ok /\ DanglingCount(parsed) > 0) =>
    /\ exitCode = 0
    /\ log[Len(log)] = "Done!"


(***************************************************************************)
(* The command: references to content types in the generated code          *)
(***************************************************************************)
\* The first position of part in text, 0 when there is none.
FirstAt(text, part) ==
  LET at == {i \in 1..(Len(text) - Len(part) + 1) :
               SubSeq(text, i, i + Len(part) - 1) = part}
  IN IF at = {} THEN 0 ELSE CHOOSE i \in at : \A j \in at : i <= j

\* The object literal of the statement "export const <key>CT = contentType(...)"
\* in text, read back.
DefinedContentType(text, key) ==
  LET head == "export const " \o key \o "CT = contentType("
      at == FirstAt(text, head)
  IN IF at = 0 THEN ParseFail ELSE ReadValue(text, at + Len(head))

\* The text of the file at path.
TextAt(d, path) == (CHOOSE f \in d : f.path = path).text

\* The file that holds the generated code of the content type ct.
FileOfContentType(ct) ==
  IF opts.singleFile THEN opts.outdir
  ELSE opts.outdir \o "/" \o ct.category \o "/" \o ct.definition.key \o ".ts"

\* The names of the properties of ct that are arrays of components.
ComponentArrays(ct) ==
  IF ct.definition.properties.t # "obj" THEN {}
  ELSE {ct.definition.properties.v[i][1] :
          i \in {j \in 1..Len(ct.definition.properties.v) :
                   LET prop == ct.definition.properties.v[j][2]
                   IN /\ Get(prop, "type") = Str("array")
                      /\ Get(Get(prop, "items"), "type") = Str("component")
                      /\ Get(Get(prop, "items"), "contentType").t = "str"}}

\* The import line of the identifier of the content type to in a file of the
\* category from.
ImportOf(from, to) ==
  "import { " \o to.definition.key \o "CT } from '"
  \o (IF from = to.category THEN "./" ELSE "../" \o to.category \o "/")
  \o to.definition.key \o "';\n"

\* C3: in the generated code of a content type an array of components is
\* written with the identifier <key>CT of the referenced type exactly when
\* that key is in the model, and then the file of the type imports the
\* identifier from the category of the referenced type; when the key is absent
\* the items descriptor is the one of the input, with the key as a string, and
\* the file has no import of the identifier.
C3_ComponentReference ==
  (pc = "exited" /\ input.ok) =>
    \A i \in 1..Len(parsed.contentTypes) :
      LET ct == parsed.contentTypes[i][2]
          text == TextAt(disk, FileOfContentType(ct))
          read == DefinedContentType(text, ct.definition.key)
      IN /\ read.ok
         /\ \A name \in ComponentArrays(ct) :
              LET items == Get(Get(ct.definition.properties, name), "items")
                  ref == Get(items, "contentType").v
                  out == Get(Get(Get(read.v, "properties"), name), "items")
              IN IF MapHas(parsed.contentTypes, ref)
                 THEN /\ out = Obj(<< <<"type", Str("component")>>,
                                      <<"contentType", Ref(ref \o "CT")>> >>)
                      /\ ~opts.singleFile =>
                           Includes(text, ImportOf(ct.category,
                                                   MapGet(parsed.contentTypes, ref)))
                 ELSE /\ out = items
                      /\ Get(out, "contentType") = Str(ref)
                      /\ ~Includes(text, "import { " \o ref \o "CT }")

\* A run that writes one reference of each kind: Hero refers to TagElement,
\* which is in the model, and TagElement to Ghost, which is not.
C3_Witness ==
  /\ pc = "exited"
  /\ input.ok
  /\ ~opts.singleFile
  /\ MapHas(parsed.contentTypes, "Hero")
  /\ MapHas(parsed.contentTypes, "TagElement")
  /\ ComponentArrays(MapGet(parsed.contentTypes, "Hero")) = {"items"}
  /\ ComponentArrays(MapGet(parsed.contentTypes, "TagElement")) = {"items"}
  /\ Includes(TextAt(disk, "out/blocks/Hero.ts"),
              "import { TagElementCT } from '../elements/TagElement';\n")
  /\ Includes(TextAt(disk, "out/blocks/Hero.ts"), "contentType: TagElementCT")
  /\ Includes(TextAt(disk, "out/elements/TagElement.ts"), "contentType: 'Ghost'")


(***************************************************************************)
(* The command: the order in which the content types are produced          *)
(***************************************************************************)
CategoryRank(category) ==
  CASE category = "elements" -> 1
    [] category = "blocks" -> 2
    [] category = "pages" -> 3
    [] category = "settings" -> 4

\* The content types produced by the run, each with its category and the place
\* of its production: the number of the write of its file in multi-file mode,
\* the position of its statement in the text in single-file mode.
Produced ==
  IF opts.singleFile
  THEN {[key |-> parsed.contentTypes[i][1],
         category |-> parsed.contentTypes[i][2].category,
         at |-> FirstAt(written[1].text,
                        "export const " \o parsed.contentTypes[i][1]
                        \o "CT = contentType(")] :
          i \in 1..Len(parsed.contentTypes)}
  ELSE UNION {{[key |-> parsed.contentTypes[i][1],
                category |-> parsed.contentTypes[i][2].category,
                at |-> w] :
                 i \in {j \in 1..Len(parsed.contentTypes) :
                          written[w].path =
                            opts.outdir \o "/" \o parsed.contentTypes[j][2].category
                            \o "/" \o parsed.contentTypes[j][1] \o ".ts"}} :
              w \in 1..Len(written)}

\* Every content type of the model is produced.
AllProduced ==
  /\ {x.key : x \in Produced} = {parsed.contentTypes[i][1] : i \in 1..Len(parsed.contentTypes)}
  /\ \A x \in Produced : x.at > 0

\* The place of key in the sequence keys.
PlaceIn(keys, key) == CHOOSE i \in 1..Len(keys) : keys[i] = key

\* C7 as stated: in both modes the content types are produced in the order of
\* the categories elements, blocks, pages, settings and, within a category, in
\* ascending order of their keys.
C7_AscendingInBothModes ==
  (pc = "exited" /\ input.ok) =>
    /\ AllProduced
    /\ \A x, y \in Produced :
         x.at < y.at =>
           \/ CategoryRank(x.category) < CategoryRank(y.category)
           \/ /\ x.category = y.category
              /\ localeCompare(x.key, y.key) <= 0

\* C7: in both modes the content types are produced in the order of the
\* categories elements, blocks, pages, settings; within a category they are
\* produced in ascending order of their keys in multi-file mode and in the
\* order of buildDependencyOrder in single-file mode.
C7_ProductionOrder ==
  (pc = "exited" /\ input.ok) =>
    /\ AllProduced
    /\ \A x, y \in Produced :
         x.at < y.at =>
           \/ CategoryRank(x.category) < CategoryRank(y.category)
           \/ /\ x.category = y.category
              /\ IF opts.singleFile
                 THEN PlaceIn(buildDependencyOrder(parsed), x.key)
                        < PlaceIn(buildDependencyOrder(parsed), y.key)
                 ELSE localeCompare(x.key, y.key) <= 0

\* A run of each mode on the document of Hero, then Card: the files are
\* written Card first, the statements of the single file Hero first.
C7_Witness ==
  /\ pc = "exited"
  /\ input.ok
  /\ MapKeys(parsed.contentTypes) = <<"Hero", "Card">>
  /\ \E hero, card \in Produced :
       /\ hero.key = "Hero"
       /\ card.key = "Card"
       /\ hero.category = card.category
       /\ opts.singleFile
       /\ hero.at < card.at

C7_WitnessMultiFile ==
  /\ pc = "exited"
  /\ input.ok
  /\ ~opts.singleFile
  /\ MapKeys(parsed.contentTypes) = <<"Hero", "Card">>
  /\ \E hero, card \in Produced :
       /\ hero.key = "Hero"
       /\ card.key = "Card"
       /\ card.at < hero.at


(***************************************************************************)
(* buildDependencyOrder applied to the models of dependency graphs         *)
(***************************************************************************)
MaxOrderTypes == 3

\* The keys of the graph, and Ghost, a key of no content type.
OrderKey(i) == "Type" \o NatToString(i)
OrderKeys == [i \in 1..MaxOrderTypes |-> OrderKey(i)]
OrderTargets == OrderKeys \o <<"Ghost">>

\* The properties of a content type that depends on the keys of targets: an
\* array of components for the first, component properties for the others.
PropertiesFor(targets) ==
  IF targets = <<>> THEN Undef
  ELSE Obj([i \in 1..Len(targets) |->
              <<"p" \o NatToString(i),
                IF i = 1
                THEN Obj(<< <<"type", Str("array")>>,
                            <<"items", Obj(<< <<"type", Str("component")>>,
                                              <<"contentType", Str(targets[i])>> >>)>> >>)
                ELSE Obj(<< <<"type", Str("component")>>,
                            <<"contentType", Str(targets[i])>> >>)>>])

\* The model parsed from the document of n content types where the type i
\* depends on the keys of edges[i].
GraphModel(n, edges) ==
  parseTypesJson(
    [ok |-> TRUE,
     contentTypes |->
       [i \in 1..n |->
          ContentType(OrderKey(i), "_component",
                      PropertiesFor(SelectSeq(OrderTargets,
                                              LAMBDA k : k \in edges[i])))],
     displayTemplates |-> <<>>])

\* No dependency, one, or two: to keys of the graph, itself included, or to
\* Ghost (for the types of odd number).
EdgeSets(targets) == {{}} \cup {{a, b} : a, b \in targets}

InitOrder ==
  /\ pc = "call"
  /\ \E n \in 0..MaxOrderTypes :
       \E edges \in [1..n -> EdgeSets({OrderKey(i) : i \in 1..n} \cup {"Ghost"})] :
         /\ \A i \in 1..n : "Ghost" \in edges[i] => i % 2 = 1
         /\ arg = GraphModel(n, edges)
  /\ ret = Undef
  /\ PipelineIdle

CallBuildDependencyOrder ==
  /\ pc = "call"
  /\ ret' = buildDependencyOrder(arg)
  /\ pc' = "return"
  /\ UNCHANGED arg
  /\ PipelineUnchanged

NextOrder == CallBuildDependencyOrder

SpecOrder == InitOrder /\ [][NextOrder]_vars

\* The dependencies of key that are keys of the model.
PresentDependencies(model, key) ==
  {dep \in {MapGet(model.contentTypes, key).dependencies[j] :
              j \in 1..Len(MapGet(model.contentTypes, key).dependencies)} :
     MapHas(model.contentTypes, dep)}

\* The keys reached from the keys of from along present dependencies.
RECURSIVE ReachedFrom(_, _)
ReachedFrom(model, from) ==
  LET next == from \cup UNION {PresentDependencies(model, k) : k \in from}
  IN IF next = from THEN from ELSE ReachedFrom(model, next)

Acyclic(model) ==
  \A i \in 1..Len(model.contentTypes) :
    model.contentTypes[i][1]
      \notin ReachedFrom(model, PresentDependencies(model, model.contentTypes[i][1]))

\* C2: for an acyclic dependency graph, dangling dependencies allowed, the
\* sequence buildDependencyOrder returns holds every key of the model once,
\* each after every one of its dependencies that is in the model.
C2_DependenciesFirst ==
  (pc = "return" /\ Acyclic(arg)) =>
    /\ Len(ret) = Len(arg.contentTypes)
    /\ {ret[i] : i \in 1..Len(ret)} = {arg.contentTypes[i][1] : i \in 1..Len(arg.contentTypes)}
    /\ \A i \in 1..Len(ret) :
         \A dep \in PresentDependencies(arg, ret[i]) :
           \E j \in 1..(i - 1) : ret[j] = dep

\* The chain Type1 -> Type2 -> Type3 with a dangling dependency of Type1.
C2_Witness ==
  /\ pc = "return"
  /\ Acyclic(arg)
  /\ Len(arg.contentTypes) = 3
  /\ MapGet(arg.contentTypes, "Type1").dependencies = <<"Type2", "Ghost">>
  /\ MapGet(arg.contentTypes, "Type2").dependencies = <<"Type3">>
  /\ ret = <<"Type3", "Type2", "Type1">>


(***************************************************************************)
(* The command run again on the same input                                 *)
(***************************************************************************)
TwiceTypes ==
  {ContentType("Hero", "_component", ArrayOf("TagElement")),
   ContentType("Hero", "_media", Undef),
   ContentType("Card", "_component", ArrayOf("Hero")),
   ContentType("TagElement", "_component", ComponentOf("Hero")),
   ContentType("SiteSettings", "_component", ArrayOfListed("Ghost"))}

InitTwice == InitCommand(TwiceTypes, SomeTemplates, AllOptions, TRUE)

NextTwice == Command \/ RunAgain

SpecTwice == InitTwice /\ [][NextTwice]_vars

Definitions == {input.contentTypes[i] : i \in 1..Len(input.contentTypes)}

\* The definitions the categorizer gives a category.
Categorized == {d \in Definitions : categorizeContentType(d) # NoCategory}

TypeFile(category, key) == opts.outdir \o "/" \o category \o "/" \o key \o ".ts"

IndexFile(category) == opts.outdir \o "/" \o category \o "/index.ts"

\* The text defines the content type d: its key and its base type.
Defines(text, d) ==
  LET read == DefinedContentType(text, d.key)
  IN /\ read.ok
     /\ Get(read.v, "key") = Str(d.key)
     /\ Get(read.v, "baseType") = Str(d.baseType)

\* The paths at which a write has put the definition d.
PathsOf(d) ==
  {written[w].path : w \in {v \in 1..Len(written) : Defines(written[v].text, d)}}

\* C11: in multi-file mode every content type with a category is written to
\* one file, <outdir>/<category>/<key>.ts for the category the categorizer
\* gives it, and to no file of another category; nothing is written for a
\* content type whose baseType is skipped, nor under a category without content
\* types: every path written is the file of a categorized type, the index of
\* its category, the root index or the registry.
C11_Layout ==
  (pc = "exited" /\ input.ok /\ ~opts.singleFile) =>
    /\ \A d \in Categorized :
         PathsOf(d) = {TypeFile(categorizeContentType(d), d.key)}
    /\ \A d \in Definitions \ Categorized : PathsOf(d) = {}
    /\ \A w \in 1..Len(written) :
         \/ \E d \in Categorized :
              written[w].path \in {TypeFile(categorizeContentType(d), d.key),
                                   IndexFile(categorizeContentType(d))}
         \/ written[w].path = opts.outdir \o "/index.ts"
         \/ opts.withRegistry /\ written[w].path = opts.outdir \o "/registry.ts"

\* A run on a skipped Hero and a Card: Card.ts under blocks, no Hero.ts, and
\* nothing under the three other categories.
C11_Witness ==
  /\ pc = "exited"
  /\ ~opts.singleFile
  /\ ~opts.withRegistry
  /\ Len(input.contentTypes) = 2
  /\ input.contentTypes[1].baseType = "_media"
  /\ input.contentTypes[2].key = "Card"
  /\ [i \in 1..Len(written) |-> written[i].path]
       = <<"out/blocks/Card.ts", "out/blocks/index.ts", "out/index.ts">>


(***************************************************************************)
(* The command: the registry                                               *)
(***************************************************************************)
\* The lines of a text.
RECURSIVE SplitLines(_)
SplitLines(text) ==
  IF text = "" THEN <<>>
  ELSE LET nl == FirstAt(text, "\n")
       IN IF nl = 0 THEN <<text>>
          ELSE <<SubSeq(text, 1, nl - 1)>> \o SplitLines(SubSeq(text, nl + 1, Len(text)))

\* The lines between the line header and the next line "];".
ListLines(text, header) ==
  LET at == FirstAt(text, header \o "\n")
      rest == SubSeq(text, at + Len(header) + 1, Len(text))
      end == FirstAt(rest, "];")
  IN IF at = 0 \/ end = 0 THEN <<"?">> ELSE SplitLines(SubSeq(rest, 1, end - 1))

\* The entries of a list: each identifier with the comment line it is under.
RECURSIVE Grouped(_, _)
Grouped(lines, group) ==
  IF lines = <<>> THEN <<>>
  ELSE LET line == Head(lines)
       IN IF StartsWith(line, "  // ")
          THEN Grouped(Tail(lines), SubSeq(line, 6, Len(line)))
          ELSE IF StartsWith(line, "  ") /\ EndsWith(line, ",") /\ Len(line) > 3
          THEN <<[group |-> group, name |-> SubSeq(line, 3, Len(line) - 1)]>>
               \o Grouped(Tail(lines), group)
          ELSE <<[group |-> "?", name |-> line]>> \o Grouped(Tail(lines), group)

GroupTitle(category) ==
  CASE category = "elements" -> "Elements"
    [] category = "blocks" -> "Blocks"
    [] category = "pages" -> "Pages"
    [] category = "settings" -> "Settings"

GroupRank(title) ==
  CASE title = "Built-in experience types" -> 0
    [] title = "Elements" -> 1
    [] title = "Blocks" -> 2
    [] title = "Pages" -> 3
    [] title = "Settings" -> 4
    [] OTHER -> -1

\* The text that holds the registry: the registry file, or the single file.
RegistryText ==
  IF opts.singleFile THEN TextAt(disk, opts.outdir)
  ELSE TextAt(disk, opts.outdir \o "/registry.ts")

RegisteredTypes == Grouped(ListLines(RegistryText, "export const allContentTypes = ["), "")

RegisteredTemplates ==
  Grouped(ListLines(RegistryText, "export const allDisplayTemplates = ["), "")

\* C12: the registry, as a file of its own and as the section of the single
\* file, lists the identifier of every content type of the model under the
\* group of its category, the groups in the order elements, blocks, pages,
\* settings and every identifier listed that of a definition of that category;
\* it lists the identifier of a display template if and only if the content
\* type the template refers to is in the model.
C12_Registry ==
  (pc = "exited" /\ input.ok /\ opts.withRegistry) =>
    LET types == RegisteredTypes
        templates == RegisteredTemplates
    IN /\ \A i \in 1..Len(parsed.contentTypes) :
            \E j \in 1..Len(types) :
              /\ types[j].name = parsed.contentTypes[i][1] \o "CT"
              /\ types[j].group = GroupTitle(parsed.contentTypes[i][2].category)
       /\ \A j, k \in 1..Len(types) :
            j < k => /\ GroupRank(types[j].group) >= 0
                     /\ GroupRank(types[j].group) <= GroupRank(types[k].group)
       /\ \A j \in 1..Len(types) :
            \/ /\ types[j].group = "Built-in experience types"
               /\ types[j].name \in {"BlankExperienceContentType", "BlankSectionContentType"}
            \/ \E d \in Categorized :
                 /\ types[j].name = d.key \o "CT"
                 /\ types[j].group = GroupTitle(categorizeContentType(d))
       /\ \A t \in 1..Len(input.displayTemplates) :
            MapHas(parsed.contentTypes, input.displayTemplates[t].contentType)
              <=> \E j \in 1..Len(templates) :
                    templates[j].name = input.displayTemplates[t].key
       /\ \A j \in 1..Len(templates) :
            \E t \in 1..Len(input.displayTemplates) :
              templates[j] = [group |-> "", name |-> input.displayTemplates[t].key]

\* A registry with content types of two categories, one template listed
\* and one left out.
C12_Witness ==
  /\ pc = "exited"
  /\ opts.withRegistry
  /\ MapKeys(parsed.contentTypes) = <<"Hero", "TagElement">>
  /\ [j \in 1..Len(RegisteredTypes) |-> RegisteredTypes[j].name]
       = <<"BlankExperienceContentType", "BlankSectionContentType",
           "TagElementCT", "HeroCT">>
  /\ [j \in 1..Len(RegisteredTemplates) |-> RegisteredTemplates[j].name]
       = <<"TagTemplate">>
  /\ Len(input.displayTemplates) = 2


(***************************************************************************)
(* The command: the root index                                             *)
(***************************************************************************)
\* The lines of the root index that are not empty.
RootLines ==
  SelectSeq(SplitLines(TextAt(disk, opts.outdir \o "/index.ts")),
            LAMBDA line : line # "")

ReExport(category) == "export * from './" \o category \o "';"

\* The categories of at least one definition of the document, in the fixed
\* order.
UsedCategories ==
  SelectSeq(<<"elements", "blocks", "pages", "settings">>,
            LAMBDA c : \E d \in Categorized : categorizeContentType(d) = c)

\* C13: the lines of the root index are the re-exports of the categories
\* that have at least one content type, in the order elements, blocks, pages,
\* settings; a category is re-exported if and only if generate writes the
\* index file of that category.
C13_RootIndex ==
  (pc = "exited" /\ input.ok /\ ~opts.singleFile) =>
    /\ RootLines = [i \in 1..Len(UsedCategories) |-> ReExport(UsedCategories[i])]
    /\ \A c \in Categories :
         (\E i \in 1..Len(RootLines) : RootLines[i] = ReExport(c))
           <=> (\E w \in 1..Len(written) : written[w].path = IndexFile(c))

\* A root index of two categories given in the other order by the document.
C13_Witness ==
  /\ pc = "exited"
  /\ ~opts.singleFile
  /\ Len(input.contentTypes) = 2
  /\ input.contentTypes[1].key = "SiteSettings"
  /\ input.contentTypes[2].key = "TagElement"
  /\ RootLines = <<"export * from './elements';", "export * from './settings';">>
  /\ \E f \in disk : f.path = "out/elements/index.ts"
  /\ ~\E f \in disk : f.path = "out/blocks/index.ts"


(***************************************************************************)
(* normalizeProperties applied to property collections                     *)
(***************************************************************************)
MaxRecords == 2

\* Records with a name, with an empty name and without one; the name is the
\* first field or the last.
NormRecords ==
  {Obj(<< <<"name", n>>, <<"type", Str(ty)>> >>) :
     n \in {Str("a"), Str("b"), Str("")}, ty \in {"string", "array"}}
  \cup {Obj(<< <<"type", Str(ty)>>, <<"name", Str("a")>>, <<"sortOrder", Num(1)>> >>) :
          ty \in {"string", "array"}}
  \cup {Obj(<< <<"type", Str(ty)>> >>) : ty \in {"string", "array"}}

NormKeys == <<"a", "b", "name">>

InitNorm ==
  /\ pc = "call"
  /\ \/ arg = Undef
     \/ \E n \in 0..MaxRecords : \E f \in [1..n -> NormRecords] : arg = Arr(f)
     \/ \E n \in 0..MaxRecords : \E f \in [1..n -> NormRecords] :
          arg = Obj([i \in 1..n |-> <<NormKeys[i], f[i]>>])
  /\ ret = Undef
  /\ PipelineIdle

CallNormalizeProperties ==
  /\ pc = "call"
  /\ ret' = normalizeProperties(arg)
  /\ pc' = "return"
  /\ UNCHANGED arg
  /\ PipelineUnchanged

NextNorm == CallNormalizeProperties

SpecNorm == InitNorm /\ [][NextNorm]_vars

\* The record without its name field.
Unnamed(record) ==
  Obj(SelectSeq(record.v, LAMBDA e : e[1] # "name"))

\* The records of the sequence that have a name, a string that is not empty.
NamedRecords(records) ==
  {i \in 1..Len(records) :
     Get(records[i], "name").t = "str" /\ Get(records[i], "name").v # ""}

\* C14 as stated: a keyed mapping is returned unchanged; a sequence of
\* records is turned into a keyed mapping that holds each record with a name
\* under that name, without the name field, and nothing else.
C14_EachNamedRecordStored ==
  pc = "return" =>
    /\ arg.t = "obj" => ret = arg
    /\ arg.t = "arr" =>
         /\ ret.t = "obj"
         /\ \A i \in NamedRecords(arg.v) :
              Get(ret, Get(arg.v[i], "name").v) = Unnamed(arg.v[i])
         /\ \A e \in 1..Len(ret.v) :
              \E i \in NamedRecords(arg.v) : ret.v[e][1] = Get(arg.v[i], "name").v

\* C14: a keyed mapping is returned unchanged; a sequence of records of which
\* at least one has a name is turned into the keyed mapping of the names to
\* the records without their name field, the last record of a name being the
\* one kept; records without a name are dropped; a sequence of which no
\* record has a name gives no mapping at all (undefined).
C14_Normalize ==
  pc = "return" =>
    /\ arg.t = "obj" => ret = arg
    /\ arg.t = "arr" =>
         IF NamedRecords(arg.v) = {} THEN ret = Undef
         ELSE /\ ret.t = "obj"
              /\ \A i \in NamedRecords(arg.v) :
                   LET name == Get(arg.v[i], "name").v
                       last == CHOOSE j \in NamedRecords(arg.v) :
                                 /\ Get(arg.v[j], "name").v = name
                                 /\ \A k \in NamedRecords(arg.v) :
                                      Get(arg.v[k], "name").v = name => k <= j
                   IN Get(ret, name) = Unnamed(arg.v[last])
              /\ \A e \in 1..Len(ret.v) :
                   \E i \in NamedRecords(arg.v) : ret.v[e][1] = Get(arg.v[i], "name").v
              /\ \A e, f \in 1..Len(ret.v) : ret.v[e][1] = ret.v[f][1] => e = f

\* A sequence of a record with a name and a record without one.
C14_Witness ==
  /\ pc = "return"
  /\ arg = Arr(<<Obj(<< <<"type", Str("array")>>, <<"name", Str("a")>>,
                        <<"sortOrder", Num(1)>> >>),
                 Obj(<< <<"type", Str("string")>> >>)>>)
  /\ ret = Obj(<< <<"a", Obj(<< <<"type", Str("array")>>,
                                <<"sortOrder", Num(1)>> >>)>> >>)


(***************************************************************************)
(* buildDependencyOrder on graphs with cycles                              *)
(***************************************************************************)
\* The keys in the order in which the traversal enters them: the keys of the
\* model in insertion order, the dependencies of a key right after it.
RECURSIVE EnterAll(_, _, _)
EnterAll(model, keys, entered) ==
  IF keys = <<>> THEN entered
  ELSE LET key == Head(keys)
           inside ==
             IF \E i \in 1..Len(entered) : entered[i] = key THEN entered
             ELSE IF ~MapHas(model.contentTypes, key) THEN Append(entered, key)
             ELSE EnterAll(model, MapGet(model.contentTypes, key).dependencies,
                           Append(entered, key))
       IN EnterAll(model, Tail(keys), inside)

EntryOrder(model) == EnterAll(model, MapKeys(model.contentTypes), <<>>)

\* The pairs <<entry, dependent>>: the two are keys of one cycle (each is
\* reached from the other), entry is the key of that cycle that the traversal
\* enters first, and dependent depends on entry.
CyclePairs(model) ==
  LET keys == {model.contentTypes[i][1] : i \in 1..Len(model.contentTypes)}
      order == EntryOrder(model)
      at == [k \in keys |-> PlaceIn(order, k)]
      reached == [k \in keys |-> ReachedFrom(model, PresentDependencies(model, k))]
      OneCycle(a, b) == a # b /\ a \in reached[b] /\ b \in reached[a]
  IN {pair \in keys \X keys :
        /\ OneCycle(pair[1], pair[2])
        /\ \A other \in keys : OneCycle(pair[1], other) => at[pair[1]] < at[other]
        /\ pair[1] \in PresentDependencies(model, pair[2])}

\* C15 as stated: on a graph with a cycle buildDependencyOrder returns, and
\* the key of the cycle entered first is in the output ahead of the key of
\* the cycle that depends on it.
C15_EntryAheadOfDependent ==
  (pc = "return" /\ ~Acyclic(arg)) =>
    /\ Len(ret) = Len(arg.contentTypes)
    /\ LET place == [i \in 1..Len(ret) |-> ret[i]]
       IN \A pair \in CyclePairs(arg) :
            PlaceIn(place, pair[1]) < PlaceIn(place, pair[2])

\* C15: on a graph with a cycle buildDependencyOrder returns, with every key
\* of the model in the output, and the key of the cycle entered first is in
\* the output after the key of the cycle that depends on it: the dependent is
\* ahead of its dependency.
C15_EntryAfterDependent ==
  (pc = "return" /\ ~Acyclic(arg)) =>
    /\ Len(ret) = Len(arg.contentTypes)
    /\ LET place == [i \in 1..Len(ret) |-> ret[i]]
       IN \A pair \in CyclePairs(arg) :
            PlaceIn(place, pair[2]) < PlaceIn(place, pair[1])

\* Type1 and Type2 depend on each other; Type1 is entered first and put last.
C15_Witness ==
  /\ pc = "return"
  /\ Len(arg.contentTypes) = 2
  /\ MapGet(arg.contentTypes, "Type1").dependencies = <<"Type2">>
  /\ MapGet(arg.contentTypes, "Type2").dependencies = <<"Type1">>
  /\ CyclePairs(arg) = {<<"Type1", "Type2">>}
  /\ ret = <<"Type2", "Type1">>


(***************************************************************************)
(* buildDependencyOrder step by step: the calls of visit as a stack        *)
(***************************************************************************)
\* The traversal before its first call: nothing visited, nothing pushed, no
\* call of visit open, the keys of the model still to go through.
StartOfTraversal(model) ==
  [visited |-> {}, result |-> <<>>, stack |-> <<>>,
   keys |-> MapKeys(model.contentTypes)]

\* visit(key) with a key of no content type opening a call like any other.
callVisitOfAbsentToo(model, key, st) ==
  IF key \in st.visited THEN st
  ELSE [st EXCEPT !.visited = @ \cup {key},
                  !.stack = Append(@, [key |-> key,
                                       deps |-> IF MapHas(model.contentTypes, key)
                                                THEN MapGet(model.contentTypes, key).dependencies
                                                ELSE <<>>])]

\* visit(key) up to its loop: it returns at once for a key already visited
\* and, the key marked, for a key of no content type; otherwise the call stays
\* open with the dependencies of the key to go through.
callVisit(model, key, st) ==
  IF key \in st.visited THEN st
  ELSE IF ~MapHas(model.contentTypes, key)
       THEN [st EXCEPT !.visited = @ \cup {key}]
       ELSE [st EXCEPT !.visited = @ \cup {key},
                       !.stack = Append(@, [key |-> key,
                                            deps |-> MapGet(model.contentTypes, key).dependencies])]

\* Graphs where the first type has up to two dependencies and the others
\* at most one.
InitVisit ==
  /\ pc = "visit"
  /\ \E n \in 0..MaxOrderTypes :
       \E edges \in [1..n -> EdgeSets({OrderKey(i) : i \in 1..n} \cup {"Ghost"})] :
         /\ \A i \in 2..n : Cardinality(edges[i]) <= 1
         /\ arg = GraphModel(n, edges)
         /\ ret = StartOfTraversal(arg)
  /\ PipelineIdle

\* for (const key of parsed.contentTypes.keys()) visit(key): the next turn.
VisitNextKey ==
  /\ pc = "visit"
  /\ ret.stack = <<>>
  /\ ret.keys # <<>>
  /\ ret' = callVisit(arg, Head(ret.keys), [ret EXCEPT !.keys = Tail(@)])
  /\ UNCHANGED <<pc, arg>>
  /\ PipelineUnchanged

\* for (const dep of ct.dependencies) visit(dep): the next turn of the loop
\* of the innermost open call.
VisitNextDependency ==
  /\ pc = "visit"
  /\ ret.stack # <<>>
  /\ ret.stack[Len(ret.stack)].deps # <<>>
  /\ ret' = callVisit(arg, Head(ret.stack[Len(ret.stack)].deps),
                      [ret EXCEPT !.stack[Len(ret.stack)].deps = Tail(@)])
  /\ UNCHANGED <<pc, arg>>
  /\ PipelineUnchanged

\* result.push(key) and the return of the innermost open call.
PushAndReturn ==
  /\ pc = "visit"
  /\ ret.stack # <<>>
  /\ ret.stack[Len(ret.stack)].deps = <<>>
  /\ ret' = [ret EXCEPT !.result = Append(@, ret.stack[Len(ret.stack)].key),
                        !.stack = SubSeq(@, 1, Len(@) - 1)]
  /\ UNCHANGED <<pc, arg>>
  /\ PipelineUnchanged

\* return result
ReturnResult ==
  /\ pc = "visit"
  /\ ret.stack = <<>>
  /\ ret.keys = <<>>
  /\ pc' = "return"
  /\ UNCHANGED <<arg, ret>>
  /\ PipelineUnchanged

NextVisit == VisitNextKey \/ VisitNextDependency \/ PushAndReturn \/ ReturnResult

SpecVisit == InitVisit /\ [][NextVisit]_vars

\* The function runs on: a step that can be taken is taken.
FairSpecVisit == SpecVisit /\ WF_vars(NextVisit)

\* The steps compute what buildDependencyOrder computes.
VisitAgrees == pc = "return" => ret.result = buildDependencyOrder(arg)

\* The result holds every key of the model once and no other key.
EveryKeyOnce ==
  /\ Len(ret.result) = Len(arg.contentTypes)
  /\ \A i \in 1..Len(arg.contentTypes) :
       Cardinality({j \in 1..Len(ret.result) : ret.result[j] = arg.contentTypes[i][1]}) = 1

\* C16: on every dependency graph, with cycles, self-references and dangling
\* dependencies, buildDependencyOrder returns, and what it returns holds every
\* key of the model exactly once and no key that is not in the model.
C16_TerminatesWithEveryKeyOnce == <>(pc = "return" /\ EveryKeyOnce)

\* The traversal of Type1 -> {Type1, Type2}, Type2 -> Type3, Type3 -> Type2
\* has returned.
C16_Witness ==
  /\ pc = "return"
  /\ Len(arg.contentTypes) = 3
  /\ MapGet(arg.contentTypes, "Type1").dependencies = <<"Type1", "Type2">>
  /\ MapGet(arg.contentTypes, "Type2").dependencies = <<"Type3">>
  /\ MapGet(arg.contentTypes, "Type3").dependencies = <<"Type2">>
  /\ ret.result = <<"Type3", "Type2", "Type1">>

\* A traversal with a dangling dependency has returned.
C16_WitnessDangling ==
  /\ pc = "return"
  /\ Len(arg.contentTypes) = 2
  /\ MapGet(arg.contentTypes, "Type1").dependencies = <<"Type2", "Ghost">>
  /\ "Ghost" \in ret.visited
  /\ ret.result = <<"Type2", "Type1">>


(***************************************************************************)
(* The command: references and definitions in the single file              *)
(***************************************************************************)
\* The positions of part in text.
AllAt(text, part) ==
  {i \in 1..(Len(text) - Len(part) + 1) : SubSeq(text, i, i + Len(part) - 1) = part}

\* The position of the statement that defines the identifier of key.
DefinedAt(text, key) == FirstAt(text, "export const " \o key \o "CT = contentType(")

\* The positions of the symbolic references to the identifier of key.
ReferencedAt(text, key) == AllAt(text, "contentType: " \o key \o "CT,")

\* The keys of the model to which the single file refers symbolically.
ReferencedKeys(text) ==
  {key \in {parsed.contentTypes[i][1] : i \in 1..Len(parsed.contentTypes)} :
     ReferencedAt(text, key) # {}}

\* C17: in the single file of a model without dependency cycle every
\* symbolic reference to the identifier of a content type is after the
\* statement that defines the identifier, whatever the categories of the two
\* content types.
C17_ReferenceAfterDefinition ==
  (pc = "exited" /\ input.ok /\ opts.singleFile /\ Acyclic(parsed)) =>
    LET text == written[1].text
    IN \A key \in ReferencedKeys(text) :
         /\ DefinedAt(text, key) > 0
         /\ \A at \in ReferencedAt(text, key) : DefinedAt(text, key) < at

\* The same for a reference to a content type of the category of the content
\* type that refers to it.
ReferenceAfterDefinitionInCategory ==
  (pc = "exited" /\ input.ok /\ opts.singleFile /\ Acyclic(parsed)) =>
    LET text == written[1].text
    IN \A i \in 1..Len(parsed.contentTypes) :
         LET ct == parsed.contentTypes[i][2]
         IN \A name \in ComponentArrays(ct) :
              LET ref == Get(Get(Get(ct.definition.properties, name), "items"),
                             "contentType").v
              IN (/\ MapHas(parsed.contentTypes, ref)
                  /\ MapGet(parsed.contentTypes, ref).category = ct.category)
                   => /\ DefinedAt(text, ref) > 0
                      /\ DefinedAt(text, ref) < DefinedAt(text, ct.definition.key)

\* A single file in which Card, a block, refers to Hero, a block too.
ReferenceInCategoryReached ==
  /\ pc = "exited"
  /\ opts.singleFile
  /\ Acyclic(parsed)
  /\ MapKeys(parsed.contentTypes) = <<"Card", "Hero">>
  /\ MapGet(parsed.contentTypes, "Hero").category = "blocks"
  /\ ReferencedKeys(written[1].text) = {"Hero"}


(***************************************************************************)
(* The command: the mapping and the category groups of the model           *)
(***************************************************************************)
\* The places <<category, i>> of the groups of the model.
GroupPlaces(model) ==
  UNION {{<<c, i>> : i \in 1..Len(model.byCategory[c])} : c \in Categories}

GroupEntry(model, place) == model.byCategory[place[1]][place[2]]

\* The places of the groups that hold a definition of key.
PlacesOf(model, key) ==
  {place \in GroupPlaces(model) : GroupEntry(model, place).definition.key = key}

\* The last definition of key in the document.
LaterDefinition(key) ==
  LET last == CHOOSE i \in 1..Len(input.contentTypes) :
                /\ input.contentTypes[i].key = key
                /\ categorizeContentType(input.contentTypes[i]) # NoCategory
                /\ \A j \in (i + 1)..Len(input.contentTypes) :
                     \/ input.contentTypes[j].key # key
                     \/ categorizeContentType(input.contentTypes[j]) = NoCategory
  IN input.contentTypes[last]

\* Each key has one entry in the mapping, that of the later definition.
MappingHoldsLaterDefinition ==
  (pc = "exited" /\ input.ok) =>
    /\ \A i, j \in 1..Len(parsed.contentTypes) :
         parsed.contentTypes[i][1] = parsed.contentTypes[j][1] => i = j
    /\ {parsed.contentTypes[i][1] : i \in 1..Len(parsed.contentTypes)}
         = {d.key : d \in Categorized}
    /\ \A i \in 1..Len(parsed.contentTypes) :
         LET key == parsed.contentTypes[i][1]
             ct == parsed.contentTypes[i][2]
         IN /\ ct.definition.key = key
            /\ ct.definition.baseType = LaterDefinition(key).baseType
            /\ ct.category = categorizeContentType(LaterDefinition(key))

\* C18: after parsing, also of a document in which two content types share a
\* key, the groups hold exactly the entries of the mapping: the entry of each
\* key is in exactly one group, the group of its category, at exactly one
\* place, and every entry of a group is the entry that the mapping holds for
\* its key.
C18_GroupsHoldMapping ==
  (pc = "exited" /\ input.ok) =>
    /\ \A i \in 1..Len(parsed.contentTypes) :
         LET key == parsed.contentTypes[i][1]
             ct == parsed.contentTypes[i][2]
         IN /\ Cardinality(PlacesOf(parsed, key)) = 1
            /\ \A place \in PlacesOf(parsed, key) :
                 /\ place[1] = ct.category
                 /\ GroupEntry(parsed, place) = ct
    /\ \A place \in GroupPlaces(parsed) :
         LET entry == GroupEntry(parsed, place)
         IN /\ MapHas(parsed.contentTypes, entry.definition.key)
            /\ MapGet(parsed.contentTypes, entry.definition.key) = entry

\* The same for a document in which no two categorized definitions share a
\* key.
GroupsHoldMappingOfDistinctKeys ==
  (/\ pc = "exited"
   /\ input.ok
   /\ \A i, j \in 1..Len(input.contentTypes) :
        (/\ input.contentTypes[i].key = input.contentTypes[j].key
         /\ categorizeContentType(input.contentTypes[i]) # NoCategory
         /\ categorizeContentType(input.contentTypes[j]) # NoCategory) => i = j)
    => /\ \A i \in 1..Len(parsed.contentTypes) :
            LET key == parsed.contentTypes[i][1]
                ct == parsed.contentTypes[i][2]
            IN /\ Cardinality(PlacesOf(parsed, key)) = 1
               /\ \A place \in PlacesOf(parsed, key) :
                    /\ place[1] = ct.category
                    /\ GroupEntry(parsed, place) = ct
       /\ \A place \in GroupPlaces(parsed) :
            LET entry == GroupEntry(parsed, place)
            IN /\ MapHas(parsed.contentTypes, entry.definition.key)
               /\ MapGet(parsed.contentTypes, entry.definition.key) = entry

\* Two content types of distinct keys and categories have been parsed.
DistinctKeysReached ==
  /\ pc = "exited"
  /\ input.ok
  /\ Len(input.contentTypes) = 2
  /\ Len(parsed.contentTypes) = 2
  /\ parsed.contentTypes[1][2].category # parsed.contentTypes[2][2].category

\* The consequence drawn for the registry: the identifier of a content type is
\* listed at most once.  A key that the document defines twice is listed twice.
ListedAtMostOnce ==
  (pc = "exited" /\ input.ok /\ opts.withRegistry) =>
    \A i, j \in 1..Len(RegisteredTypes) :
      RegisteredTypes[i].name = RegisteredTypes[j].name => i = j


(***************************************************************************)
(* The command: the imports of the file of a content type                  *)
(***************************************************************************)
SdkImport == "import { contentType, displayTemplate } from '@optimizely/cms-sdk';"

\* The import lines of a file other than that of the SDK.
ImportsOf(text) ==
  LET lines == SplitLines(text)
  IN {lines[i] \o "\n" : i \in {j \in 1..Len(lines) :
                          StartsWith(lines[j], "import ") /\ lines[j] # SdkImport}}

\* The keys to which the arrays of components of ct refer.
ArrayReferences(ct) ==
  {Get(Get(Get(ct.definition.properties, name), "items"), "contentType").v :
     name \in ComponentArrays(ct)}

\* The keys to which the component properties of ct refer.
DirectReferences(ct) ==
  IF ct.definition.properties.t # "obj" THEN {}
  ELSE {Get(ct.definition.properties.v[i][2], "contentType").v :
          i \in {j \in 1..Len(ct.definition.properties.v) :
                   LET prop == ct.definition.properties.v[j][2]
                   IN /\ Get(prop, "type") = Str("component")
                      /\ Get(prop, "contentType").t = "str"}}

\* The text of the file written for the entry of key in the mapping.
FileTextOf(key) == TextAt(disk, FileOfContentType(MapGet(parsed.contentTypes, key)))

\* C19 as stated: in multi-file mode the file of a content type imports the
\* identifiers of exactly the content types of its dependency list that are
\* in the model, and refers to each of them symbolically.
C19_ImportsPresentDependencies ==
  (pc = "exited" /\ input.ok /\ ~opts.singleFile) =>
    \A i \in 1..Len(parsed.contentTypes) :
      LET key == parsed.contentTypes[i][1]
          ct == parsed.contentTypes[i][2]
          text == FileTextOf(key)
      IN /\ ImportsOf(text)
              = {ImportOf(ct.category, MapGet(parsed.contentTypes, dep)) :
                   dep \in PresentDependencies(parsed, key)}
         /\ \A dep \in PresentDependencies(parsed, key) :
              ReferencedAt(text, dep) # {}

\* C19: in multi-file mode the file of a content type imports the identifiers
\* of exactly the content types in the model to which its arrays of
\* components refer, all of them in its dependency list, and refers to each
\* symbolically; a dependency in the model to which only a component property
\* refers is not imported and stays the literal string of its key.
C19_ImportsArrayReferences ==
  (pc = "exited" /\ input.ok /\ ~opts.singleFile) =>
    \A i \in 1..Len(parsed.contentTypes) :
      LET key == parsed.contentTypes[i][1]
          ct == parsed.contentTypes[i][2]
          text == FileTextOf(key)
          present == PresentDependencies(parsed, key)
      IN /\ ArrayReferences(ct) \cup DirectReferences(ct)
              = {ct.dependencies[j] : j \in 1..Len(ct.dependencies)}
         /\ ImportsOf(text)
              = {ImportOf(ct.category, MapGet(parsed.contentTypes, dep)) :
                   dep \in present \cap ArrayReferences(ct)}
         /\ \A dep \in present \cap ArrayReferences(ct) :
              ReferencedAt(text, dep) # {}
         /\ \A dep \in present \ ArrayReferences(ct) :
              /\ ReferencedAt(text, dep) = {}
              /\ AllAt(text, "contentType: '" \o dep \o "',") # {}

\* Files have been written for Hero, whose array refers to TagElement, and
\* for TagElement, whose component property refers to Hero.
C19_Witness ==
  /\ pc = "exited"
  /\ input.ok
  /\ ~opts.singleFile
  /\ MapHas(parsed.contentTypes, "Hero")
  /\ MapHas(parsed.contentTypes, "TagElement")
  /\ "TagElement" \in ArrayReferences(MapGet(parsed.contentTypes, "Hero"))
  /\ "Hero" \in DirectReferences(MapGet(parsed.contentTypes, "TagElement"))
  /\ PresentDependencies(parsed, "TagElement") = {"Hero"}
  /\ ImportsOf(FileTextOf("Hero")) # {}
  /\ ImportsOf(FileTextOf("TagElement")) = {}

=============================================================================
